---- MODULE Spec2Model ----
(***************************************************************************)
(* Credential lifecycle engine of otp-auth: the OTP challenge protocol     *)
(* (send-OTP, verify-and-login), refresh-token rotation and revocation,    *)
(* and the Redis rate limiter, as state machines over the Redis keyspace   *)
(* and the two Postgres tables.  A request is a task that performs its     *)
(* store calls one at a time; tasks of different requests interleave       *)
(* between store calls.  Go strings are sequences of one-character         *)
(* strings.                                                                *)
(***************************************************************************)
EXTENDS Integers, Sequences, FiniteSets, TLC

\* ------------------------------------------------------------------ bounds
MaxTime == 2          \* the clock runs over 0..MaxTime
MaxOtpReq == 3        \* requests started in one behaviour of SpecOtp
MaxBindReq == 3       \* requests started in one behaviour of SpecBind
MaxTokReq == 4        \* requests started in one behaviour of SpecTok
OtpTTL == 1           \* OTP challenge TTL, in clock ticks
RefreshTTL == 1       \* refresh token TTL, in clock ticks
MaxRateReq == 4       \* requests started in one behaviour of SpecRate
IPWindow == 1         \* window of the IP rate limit, in clock ticks
OTPWindow == 2        \* window of the phone rate limit, in clock ticks
MaxLimReq == 4        \* calls started in one behaviour of SpecLimit
MaxSessReq == 4       \* requests started in one behaviour of SpecSess
MaxOutReq == 5        \* requests started in one behaviour of SpecOut
MaxFaultReq == 3      \* requests started in one behaviour of SpecFault
MaxUserReq == 4       \* requests started in one behaviour of SpecUser
MaxSendReq == 3       \* requests started in one behaviour of SpecSend
MaxAdminReq == 3      \* requests started in one behaviour of SpecAdmin
MaxPhoneReq == 2      \* calls started in one behaviour of SpecPhone
MaxBadReq == 4        \* requests started in one behaviour of SpecBad
MaxRowReq == 4        \* requests started in one behaviour of SpecRows

\* ------------------------------------------------------- program constants
SessionIDLength == 32
IPLimit == 100        \* security.rate_limit.requests
OTPLimit == 3         \* send-OTP requests per phone number and window

Procs == 1..2
NoFault == {FALSE}
Faults == {FALSE, TRUE}

\* ----------------------------------------------------------------- strings
Rep(c, n) == [i \in 1..n |-> c]

Digits == {"0", "1", "2", "3", "4", "5", "6", "7", "8", "9"}
HexChars == Digits \cup {"a", "b", "c", "d", "e", "f", "A", "B", "C", "D", "E", "F"}

HasPrefix(s, pre) == Len(s) >= Len(pre) /\ SubSeq(s, 1, Len(pre)) = pre

AllIn(s, from, to, chars) == \A i \in from..to : s[i] \in chars

RECURSIVE TrimLeft(_)
TrimLeft(s) == IF s # <<>> /\ Head(s) = " " THEN TrimLeft(Tail(s)) ELSE s

RECURSIVE TrimRight(_)
TrimRight(s) ==
    IF s # <<>> /\ s[Len(s)] = " " THEN TrimRight(SubSeq(s, 1, Len(s) - 1)) ELSE s

TrimSpace(s) == TrimRight(TrimLeft(s))

\* strings.Split(s, sep) for a one-character separator: the pieces between
\* consecutive separators, one more than there are separators
Split(s, sep) ==
    LET at == {i \in 1..Len(s) : s[i] = sep}
        cut(k) == IF k = 0 THEN 0
                  ELSE IF k > Cardinality(at) THEN Len(s) + 1
                  ELSE CHOOSE i \in at : Cardinality({j \in at : j < i}) = k - 1
    IN [k \in 1..(Cardinality(at) + 1) |-> SubSeq(s, cut(k - 1) + 1, cut(k) - 1)]

\* ------------------------------------------------------------ phone number
\* ^\+\d{1,3}9\d{9}$
internationalPattern(s) ==
    /\ Len(s) >= 1
    /\ s[1] = "+"
    /\ \E k \in 1..3 :
        /\ Len(s) = 1 + k + 10
        /\ AllIn(s, 2, 1 + k, Digits)
        /\ s[2 + k] = "9"
        /\ AllIn(s, 3 + k, Len(s), Digits)

\* ^09\d{9}$
localPattern(s) ==
    /\ Len(s) = 11
    /\ s[1] = "0"
    /\ s[2] = "9"
    /\ AllIn(s, 3, 11, Digits)

validatePhoneNumber(phone) ==
    IF HasPrefix(phone, <<"+">>) THEN internationalPattern(phone)
    ELSE IF HasPrefix(phone, <<"0">>) THEN localPattern(phone)
    ELSE FALSE

\* a NewPhoneNumber that keeps a local number as it was written
NewPhoneNumberKeepsLocal(phone) ==
    LET t == TrimSpace(phone) IN
    IF t = <<>> THEN [ok |-> FALSE, val |-> <<>>]
    ELSE IF ~validatePhoneNumber(t) THEN [ok |-> FALSE, val |-> <<>>]
    ELSE [ok |-> TRUE, val |-> t]

\* NewPhoneNumber: [ok, val]; val is the normalised number when ok
NewPhoneNumber(phone) ==
    LET t == TrimSpace(phone) IN
    IF t = <<>> THEN [ok |-> FALSE, val |-> <<>>]
    ELSE IF ~validatePhoneNumber(t) THEN [ok |-> FALSE, val |-> <<>>]
    ELSE IF HasPrefix(t, <<"0">>) THEN [ok |-> TRUE, val |-> <<"+", "9", "8">> \o Tail(t)]
    ELSE [ok |-> TRUE, val |-> t]

\* PhoneNumber.String
PhoneString(p) ==
    IF HasPrefix(p, <<"0">>) THEN <<"+", "9", "8">> \o Tail(p) ELSE p

\* -------------------------------------------------------------- session id
\* NewSessionIDFromString: [ok, val]
NewSessionIDFromString(sessionID) ==
    LET t == TrimSpace(sessionID) IN
    IF t = <<>> THEN [ok |-> FALSE, val |-> <<>>]
    ELSE IF Len(t) # SessionIDLength * 2 THEN [ok |-> FALSE, val |-> <<>>]
    ELSE IF ~AllIn(t, 1, Len(t), HexChars) THEN [ok |-> FALSE, val |-> <<>>]
    ELSE [ok |-> TRUE, val |-> t]

\* ----------------------------------------------------------------- hashing
\* A bcrypt digest of a plaintext.  The random salt is left out: a digest is
\* only ever used through CompareHashAndPassword, or compared for equality
\* with a SHA-256 hex digest, which it never equals.
BcryptDigest(pt) == <<"$2a$">> \o pt

\* bcrypt.CompareHashAndPassword
CompareHashAndPassword(hash, pt) == hash = BcryptDigest(pt)

\* BcryptHashService.HashOTP: [ok, val]
HashOTP(otp) ==
    IF otp = <<>> THEN [ok |-> FALSE, val |-> <<>>]
    ELSE [ok |-> TRUE, val |-> BcryptDigest(otp)]

\* BcryptHashService.VerifyOTP: "ok", or the kind of the error
VerifyOTP(otp, hash) ==
    IF otp = <<>> THEN "ValidationError"
    ELSE IF hash = <<>> THEN "ValidationError"
    ELSE IF ~CompareHashAndPassword(hash, otp) THEN "ValidationError"
    ELSE "ok"

\* BcryptHashService.HashRefreshToken: hex SHA-256 of the token; [ok, val]
HashRefreshToken(token) ==
    IF token = <<>> THEN [ok |-> FALSE, val |-> <<>>]
    ELSE [ok |-> TRUE, val |-> <<"sha256:">> \o token]

\* BcryptHashService.Hash = HashPassword: a bcrypt digest; [ok, val]
Hash(plaintext) ==
    IF plaintext = <<>> THEN [ok |-> FALSE, val |-> <<>>]
    ELSE [ok |-> TRUE, val |-> BcryptDigest(plaintext)]

\* ------------------------------------------------------------ random draws
\* charset of BcryptHashService.GenerateRandomString
charset ==
    << "a", "b", "c", "d", "e", "f", "g", "h", "i", "j", "k", "l", "m",
       "n", "o", "p", "q", "r", "s", "t", "u", "v", "w", "x", "y", "z",
       "A", "B", "C", "D", "E", "F", "G", "H", "I", "J", "K", "L", "M",
       "N", "O", "P", "Q", "R", "S", "T", "U", "V", "W", "X", "Y", "Z",
       "0", "1", "2", "3", "4", "5", "6", "7", "8", "9" >>

\* GenerateRandomString(length): the n-th draw of the behaviour.  Draws of 16
\* and 32 characters over 62 symbols do not repeat.
GenerateRandomString(n, length) == Rep(charset[n], length)

\* uuid.New().String(): the n-th draw
NewUUID(n) == <<"uuid-", charset[n]>>

\* utils.GenerateOTP(6): a number in 100000..999999, printed with 6 digits;
\* the model draws from two of them, one digit apart
GenerateOTP == {<<"1", "2", "3", "4", "5", "6">>, <<"1", "2", "3", "4", "5", "7">>}

\* one of the codes that can be drawn
OneOTP == {<<"1", "2", "3", "4", "5", "6">>}

\* NewSessionID: 32 random bytes in hex; the model draws from two values
NewSessionID == {Rep("a", SessionIDLength * 2), Rep("b", SessionIDLength * 2)}

\* ------------------------------------------------------------------ inputs
Local1 == <<"0", "9", "1", "2", "3", "4", "5", "6", "7", "8", "9">>
Intl1 == <<"+", "9", "8", "9", "1", "2", "3", "4", "5", "6", "7", "8", "9">>
Local2 == <<"0", "9", "3", "5", "1", "1", "1", "2", "2", "2", "2">>

ShortSID == Rep("a", 10)
NoString == <<>>

\* ------------------------------------------------------------------- state
VARIABLES
    now,        \* the clock shared by the service and both stores
    redis,      \* Redis keyspace: set of [key, val, exp]
    users,      \* table users: set of [id, phone_number, scope]
    tokens,     \* table refresh_tokens: set of rows
    pc,         \* per task: the store call it performs next
    loc,        \* per task: its request and local variables
    res,        \* per task: the response of its last finished request
    nreq,       \* requests started so far
    nrand,      \* random draws made so far
    sent,       \* challenges stored so far: [phone, code, sid, epoch, exp,
                \* dispatch]; epoch and exp are 0 once the challenge is
                \* overwritten, dispatch tells whether the code was handed over
    consumed,   \* challenges a finished login has verified, with their epoch
                \* and the id of the user the login returned
    rotated,    \* refreshes that returned tokens: [tok, sid, new]
    loggedOut,  \* logouts that reported success for the token of an active
                \* row: the token and the session id of the row
    asked       \* POST /auth/send-otp requests: [rid, phone, at, end, solo, kind]

vars == <<now, redis, users, tokens, pc, loc, res, nreq, nrand, sent, consumed,
          rotated, loggedOut, asked>>

NoLoc ==
    [op |-> "none", rid |-> 0, phone |-> <<>>, code |-> <<>>, sid |-> <<>>,
     tok |-> <<>>, hash |-> <<>>, otp |-> {}, user |-> {}, stored |-> {},
     epoch |-> 0, note |-> {}, peer |-> {}, raw |-> <<>>, ip |-> <<>>,
     cookie |-> {}]

NoRes == [op |-> "none", kind |-> "none", msg |-> "none", sid |-> <<>>, tok |-> <<>>,
          val |-> <<>>]

Ok(op, sid, tok) ==
    [op |-> op, kind |-> "ok", msg |-> "ok", sid |-> sid, tok |-> tok, val |-> <<>>]

Err(op, kind, msg) ==
    [op |-> op, kind |-> kind, msg |-> msg, sid |-> <<>>, tok |-> <<>>, val |-> <<>>]

Idle(p) == pc[p] \in {"idle", "done"}

\* a request is taken by the first task that is free
Begin(p) ==
    /\ Idle(p)
    /\ \A q \in Procs : q < p => ~Idle(q)
    /\ nreq' = nreq + 1

Finish(p, r) ==
    /\ pc' = [pc EXCEPT ![p] = "done"]
    /\ res' = [res EXCEPT ![p] = r]

Goto(p, label) ==
    /\ pc' = [pc EXCEPT ![p] = label]
    /\ UNCHANGED res

\* --------------------------------------------------------------- Redis
\* a key that leaves out the phone number
GetRedisKeyShared(phoneNumber) == <<"otp:">>

\* GetRedisKey
GetRedisKey(phoneNumber) == <<"otp:">> \o phoneNumber

\* GetRedisValue
GetRedisValue(sessionID, hashedCode) == sessionID \o <<"-">> \o hashedCode

\* entries of a key that have not expired
RedisLive(key) == {e \in redis : e.key = key /\ now < e.exp}

\* SET key value EX ttl NX: an existing entry is kept
RedisSetNX(key, value, ttl) ==
    IF \E e \in redis : e.key = key THEN redis
    ELSE redis \cup {[key |-> key, val |-> value, exp |-> now + ttl]}

\* SET key value EX ttl
RedisSet(key, value, ttl) ==
    {e \in redis : e.key # key} \cup {[key |-> key, val |-> value, exp |-> now + ttl]}

\* DEL key
RedisDel(key) == {e \in redis : e.key # key}

\* OTPRepository.Store
OTPStore(phoneNumber, sessionID, hashedCode, ttl) ==
    RedisSet(GetRedisKey(PhoneString(phoneNumber)), GetRedisValue(sessionID, hashedCode), ttl)

\* OTPRepository.Get: [kind, otp]; otp holds the parsed challenge when kind is "ok"
OTPGet(phoneNumber) ==
    LET live == RedisLive(GetRedisKey(PhoneString(phoneNumber))) IN
    IF live = {} THEN [kind |-> "NotFoundError", otp |-> {}]
    ELSE LET value == (CHOOSE e \in live : TRUE).val
             parts == Split(value, "-")
         IN IF Len(parts) # 2 THEN [kind |-> "InternalError", otp |-> {}]
            ELSE IF ~NewSessionIDFromString(parts[1]).ok
                 THEN [kind |-> "InternalError", otp |-> {}]
            ELSE [kind |-> "ok",
                  otp |-> {[SessionID |-> NewSessionIDFromString(parts[1]).val,
                            HashedCode |-> parts[2]]}]

\* a Delete that leaves the challenge in place
OTPDeleteKeeps(phoneNumber) == redis

\* OTPRepository.Delete
OTPDelete(phoneNumber) == RedisDel(GetRedisKey(PhoneString(phoneNumber)))

\* ------------------------------------------------------------- histories
\* number of challenges stored so far for a phone number
Epoch(phone) ==
    LET e == {c.epoch : c \in {c \in sent : c.phone = phone}}
    IN IF e = {} THEN 0 ELSE CHOOSE m \in e : \A x \in e : x <= m

\* ------------------------------------------------------------------ clock
Tick ==
    /\ now < MaxTime
    /\ now' = now + 1
    /\ UNCHANGED <<redis, users, tokens, pc, loc, res, nreq, nrand, sent, consumed,
                   rotated, loggedOut, asked>>

\* ------------------------------------------------------ SendOTPUseCase
\* a dispatch whose failure takes the stored challenge back
SendOTPDispatchRollsBack(stored, failed) == IF failed THEN redis ELSE stored

\* the keyspace after OTPSender.SendOTP: the challenge stored before the
\* dispatch stays in place whether or not the dispatch failed
SendOTPDispatch(stored, failed) == stored

\* a send-OTP that hands the code over before it looks at the outcome of the
\* store
SendOTPRunDispatchesFirst(p, phoneRaw, sidRaw, otps, F) ==
    /\ LET pn == NewPhoneNumber(phoneRaw)
           parsed == NewSessionIDFromString(sidRaw)
       IN
       /\ IF ~pn.ok
          THEN /\ Finish(p, Err("send", "ValidationError", "Invalid phone number format"))
               /\ UNCHANGED <<redis, sent>>
          ELSE IF sidRaw # <<>> /\ ~parsed.ok
          THEN /\ Finish(p, Err("send", "ValidationError", "Invalid session ID format"))
               /\ UNCHANGED <<redis, sent>>
          ELSE \E sessionID \in (IF sidRaw # <<>> THEN {parsed.val} ELSE NewSessionID),
                  otpCode \in otps, storeFails \in F, sendFails \in F :
                 IF storeFails
                 THEN /\ Finish(p, Err("send", "InternalError", "Failed to store OTP"))
                      /\ redis' = redis
                      /\ sent' = sent \cup {[phone |-> pn.val, code |-> otpCode,
                                              sid |-> sessionID,
                                              epoch |-> Epoch(pn.val) + 1,
                                              exp |-> now + OtpTTL,
                                              dispatch |-> IF sendFails THEN "failed"
                                                           ELSE "ok"]}
                 ELSE /\ redis' = SendOTPDispatch(
                                     OTPStore(pn.val, sessionID, HashOTP(otpCode).val, OtpTTL),
                                     sendFails)
                      /\ sent' = {IF c.phone = pn.val
                                   THEN [c EXCEPT !.epoch = 0, !.exp = 0]
                                   ELSE c : c \in sent}
                                  \cup {[phone |-> pn.val, code |-> otpCode,
                                                sid |-> sessionID,
                                                epoch |-> Epoch(pn.val) + 1,
                                                exp |-> now + OtpTTL,
                                                dispatch |-> IF sendFails THEN "failed"
                                                             ELSE "ok"]}
                      /\ IF sendFails
                         THEN Finish(p, Err("send", "InternalError", "Failed to send OTP"))
                         ELSE Finish(p, Ok("send", sessionID, <<>>))

\* SendOTPUseCase.Execute.  Its one store call is OTPRepository.Store; the
\* dispatch that follows touches no shared state.  F is the set of fault
\* outcomes the environment may produce for the store and for the dispatch.
SendOTPRun(p, phoneRaw, sidRaw, otps, F) ==
    /\ LET pn == NewPhoneNumber(phoneRaw)
           parsed == NewSessionIDFromString(sidRaw)
       IN
       /\ IF ~pn.ok
          THEN /\ Finish(p, Err("send", "ValidationError", "Invalid phone number format"))
               /\ UNCHANGED <<redis, sent>>
          ELSE IF sidRaw # <<>> /\ ~parsed.ok
          THEN /\ Finish(p, Err("send", "ValidationError", "Invalid session ID format"))
               /\ UNCHANGED <<redis, sent>>
          ELSE \E sessionID \in (IF sidRaw # <<>> THEN {parsed.val} ELSE NewSessionID),
                  otpCode \in otps, storeFails \in F, sendFails \in F :
                 IF storeFails
                 THEN /\ Finish(p, Err("send", "InternalError", "Failed to store OTP"))
                      /\ UNCHANGED <<redis, sent>>
                 ELSE /\ redis' = SendOTPDispatch(
                                     OTPStore(pn.val, sessionID, HashOTP(otpCode).val, OtpTTL),
                                     sendFails)
                      /\ sent' = {IF c.phone = pn.val
                                   THEN [c EXCEPT !.epoch = 0, !.exp = 0]
                                   ELSE c : c \in sent}
                                  \cup {[phone |-> pn.val, code |-> otpCode,
                                                sid |-> sessionID,
                                                epoch |-> Epoch(pn.val) + 1,
                                                exp |-> now + OtpTTL,
                                                dispatch |-> IF sendFails THEN "failed"
                                                             ELSE "ok"]}
                      /\ IF sendFails
                         THEN Finish(p, Err("send", "InternalError", "Failed to send OTP"))
                         ELSE Finish(p, Ok("send", sessionID, <<>>))

\* a send-OTP that registers the phone number when no user has it
SendOTPExecuteUpserts(p, phoneRaw, sidRaw, otps, F) ==
    /\ Begin(p)
    /\ loc' = [loc EXCEPT ![p] = [NoLoc EXCEPT !.op = "send",
                                                !.phone = NewPhoneNumber(phoneRaw).val,
                                                !.raw = phoneRaw, !.sid = sidRaw]]
    /\ SendOTPRun(p, phoneRaw, sidRaw, otps, F)
    /\ users' = IF \E u \in users : u.phone_number = NewPhoneNumber(phoneRaw).val
                THEN users
                ELSE users \cup {[id |-> <<"u">>,
                                   phone_number |-> NewPhoneNumber(phoneRaw).val,
                                   scope |-> "user"]}
    /\ UNCHANGED <<now, tokens, nrand, consumed, rotated, loggedOut, asked>>

\* a call of the use case on its own
SendOTPExecute(p, phoneRaw, sidRaw, otps, F) ==
    /\ Begin(p)
    /\ loc' = [loc EXCEPT ![p] = [NoLoc EXCEPT !.op = "send",
                                                !.phone = NewPhoneNumber(phoneRaw).val,
                                                !.raw = phoneRaw, !.sid = sidRaw]]
    /\ SendOTPRun(p, phoneRaw, sidRaw, otps, F)
    /\ UNCHANGED <<now, users, tokens, nrand, consumed, rotated, loggedOut, asked>>

\* ---------------------------------------------------------- RateLimiter
DigitSeq == <<"0", "1", "2", "3", "4", "5", "6", "7", "8", "9">>

\* strconv.Itoa for n >= 0: how Redis prints a counter
RECURSIVE Itoa(_)
Itoa(n) == IF n < 10 THEN <<DigitSeq[n + 1]>>
           ELSE Itoa(n \div 10) \o <<DigitSeq[(n % 10) + 1]>>

\* the value of a string of digits
RECURSIVE DigitsValue(_)
DigitsValue(s) ==
    IF s = <<>> THEN 0
    ELSE 10 * DigitsValue(SubSeq(s, 1, Len(s) - 1))
         + (CHOOSE d \in 0..9 : DigitSeq[d + 1] = s[Len(s)])

\* StringCmd.Int: [ok, val]
Atoi(s) ==
    IF s # <<>> /\ AllIn(s, 1, Len(s), Digits)
    THEN [ok |-> TRUE, val |-> DigitsValue(s)]
    ELSE [ok |-> FALSE, val |-> 0]

\* redisKey of CheckAndIncrement
RateLimitKey(key) == <<"rate_limit:">> \o key

\* CheckAndIncrement up to its decision: GET of the counter, a missing key
\* counts as 0.  "error", "reject" or "count"
CheckAndIncrementRead(key, limit) ==
    LET live == RedisLive(RateLimitKey(key))
        count == IF live = {} THEN [ok |-> TRUE, val |-> 0]
                 ELSE Atoi((CHOOSE e \in live : TRUE).val)
    IN IF ~count.ok THEN "error"
       ELSE IF count.val >= limit THEN "reject"
       ELSE "count"

\* CheckAndIncrement after its decision: the pipeline INCR, EXPIRE window
CheckAndIncrementWrite(key, window) ==
    LET live == RedisLive(RateLimitKey(key))
        count == IF live = {} THEN 0 ELSE Atoi((CHOOSE e \in live : TRUE).val).val
    IN RedisSet(RateLimitKey(key), Itoa(count + 1), window)

\* KeyFunc of IPBasedRateLimit
IPBasedRateLimitKey(ip) == <<"ip:">> \o ip

\* KeyFunc of OtpRateLimit: the phone_number of the request body as sent
OtpRateLimitKey(phoneNumber) ==
    IF phoneNumber = <<>> THEN <<>> ELSE <<"phone:">> \o phoneNumber

\* ------------------------------------------- POST /api/v1/auth/send-otp
\* the request is answered: its record in the history gets the outcome
Answered(rid, kind) ==
    {IF a.rid = rid THEN [a EXCEPT !.kind = kind, !.end = now] ELSE a : a \in asked}

\* what a failed store call of a limiter leaves in the notes of the request
StoreError(fails, stage) ==
    IF ~fails THEN {}
    ELSE IF stage = "ipCount" THEN {"ipStoreError"} ELSE {"otpStoreError"}

\* a RateLimit that answers a store error of CheckAndIncrement with an error
RateLimitCheckClosed(p, key, limit, F, count, next) ==
    \E fails \in F :
        LET verdict == IF key = <<>> THEN "error"
                       ELSE IF fails THEN "fail"
                       ELSE CheckAndIncrementRead(key, limit)
        IN /\ loc' = [loc EXCEPT ![p].note = @ \cup StoreError(fails, count)]
           /\ IF verdict = "reject"
              THEN /\ Finish(p, Err("send", "RateLimitError", "Rate limit exceeded"))
                   /\ asked' = Answered(loc[p].rid, "RateLimitError")
              ELSE IF verdict = "fail"
              THEN /\ Finish(p, Err("send", "InternalError", "Failed to check rate limit"))
                   /\ asked' = Answered(loc[p].rid, "InternalError")
              ELSE /\ Goto(p, IF verdict = "count" THEN count ELSE next)
                   /\ UNCHANGED asked

\* RateLimit, first store call: the GET of CheckAndIncrement.  With no key or
\* a store error the request goes to the next handler; at the limit it is
\* answered with 429 RATE_LIMIT_ERROR.
RateLimitCheck(p, key, limit, F, count, next) ==
    \E fails \in F :
        LET verdict == IF key = <<>> \/ fails THEN "error"
                       ELSE CheckAndIncrementRead(key, limit)
        IN /\ loc' = [loc EXCEPT ![p].note = @ \cup StoreError(fails, count)]
           /\ IF verdict = "reject"
              THEN /\ Finish(p, Err("send", "RateLimitError", "Rate limit exceeded"))
                   /\ asked' = Answered(loc[p].rid, "RateLimitError")
              ELSE /\ Goto(p, IF verdict = "count" THEN count ELSE next)
                   /\ UNCHANGED asked

\* RateLimit, second store call: the pipeline of CheckAndIncrement; the
\* request goes to the next handler whether or not the pipeline failed
RateLimitCount(p, key, window, F, next) ==
    /\ \E fails \in F :
        /\ redis' = IF fails THEN redis ELSE CheckAndIncrementWrite(key, window)
        /\ loc' = [loc EXCEPT ![p].note = @ \cup StoreError(fails, pc[p])]
    /\ Goto(p, next)

\* v1.Use(IPBasedRateLimit(Requests, Window)): a request arrives and the
\* first middleware of the route makes its first store call
IPBasedRateLimitCheck(p, ip, phoneRaw, cookie, F) ==
    /\ Begin(p)
    /\ LET pn == NewPhoneNumber(phoneRaw).val
           others == {a \in asked : a.phone = pn /\ a.kind = "pending"}
           record == [rid |-> nreq + 1, phone |-> pn, at |-> now, end |-> now,
                      solo |-> others = {}, kind |-> "pending"]
       IN
       \E fails \in F :
            LET verdict == IF fails THEN "error"
                           ELSE CheckAndIncrementRead(IPBasedRateLimitKey(ip), IPLimit)
            IN
            /\ loc' = [loc EXCEPT ![p] = [NoLoc EXCEPT !.op = "send", !.rid = nreq + 1,
                                                        !.phone = pn,
                                                        !.raw = phoneRaw, !.sid = cookie,
                                                        !.ip = ip,
                                                        !.note = StoreError(fails, "ipCount")]]
            /\ asked' = {IF a \in others THEN [a EXCEPT !.solo = FALSE] ELSE a : a \in asked}
                         \cup {[record EXCEPT !.kind = IF verdict = "reject"
                                                       THEN "RateLimitError" ELSE @]}
            /\ IF verdict = "reject"
               THEN Finish(p, Err("send", "RateLimitError", "Rate limit exceeded"))
               ELSE Goto(p, IF verdict = "count" THEN "ipCount" ELSE "otpCheck")
    /\ UNCHANGED <<now, redis, users, tokens, nrand, sent, consumed, rotated, loggedOut>>

IPBasedRateLimitCount(p, F) ==
    /\ pc[p] = "ipCount"
    /\ RateLimitCount(p, IPBasedRateLimitKey(loc[p].ip), IPWindow, F, "otpCheck")
    /\ UNCHANGED <<now, users, tokens, nreq, nrand, sent, consumed,
                   rotated, loggedOut, asked>>

\* a phone rate limit that counts the requests it rejects as well
OtpRateLimitCheckCounts(p, F) ==
    /\ pc[p] = "otpCheck"
    /\ RateLimitCheck(p, OtpRateLimitKey(loc[p].raw), OTPLimit, F, "otpCount", "sendOTP")
    /\ redis' = IF pc'[p] = "done"
                THEN CheckAndIncrementWrite(OtpRateLimitKey(loc[p].raw), OTPWindow)
                ELSE redis
    /\ UNCHANGED <<now, users, tokens, nreq, nrand, sent, consumed,
                   rotated, loggedOut>>

\* auth.POST("/send-otp", OtpRateLimit(OTPLimit, OTPWindow), ...)
OtpRateLimitCheck(p, F) ==
    /\ pc[p] = "otpCheck"
    /\ RateLimitCheck(p, OtpRateLimitKey(loc[p].raw), OTPLimit, F, "otpCount", "sendOTP")
    /\ UNCHANGED <<now, redis, users, tokens, nreq, nrand, sent, consumed,
                   rotated, loggedOut>>

OtpRateLimitCount(p, F) ==
    /\ pc[p] = "otpCount"
    /\ RateLimitCount(p, OtpRateLimitKey(loc[p].raw), OTPWindow, F, "sendOTP")
    /\ UNCHANGED <<now, users, tokens, nreq, nrand, sent, consumed,
                   rotated, loggedOut, asked>>

\* AuthHandler.SendOTP: the session_id cookie replaces the one of the body,
\* the request is validated and the use case is run
AuthHandlerSendOTP(p, otps, F) ==
    /\ pc[p] = "sendOTP"
    /\ SendOTPRun(p, loc[p].raw, loc[p].sid, otps, F)
    /\ asked' = Answered(loc[p].rid, res'[p].kind)
    /\ UNCHANGED <<now, users, tokens, loc, nreq, nrand, consumed, rotated, loggedOut>>

\* -------------------------------------------------------- LoginUseCase
\* LoginUseCase.Execute up to the deletion of the challenge: the request is
\* validated, the challenge is read with OTPRepository.Get, the code is
\* verified and then the session id is parsed and compared.
\* [kind, msg, otp]; kind is "ok" when the login goes on.
LoginCheck(phoneRaw, otpIn, sidRaw) ==
    LET pn == NewPhoneNumber(phoneRaw)
        got == OTPGet(pn.val)
        storedOTP == CHOOSE o \in got.otp : TRUE
        sessionIDObj == NewSessionIDFromString(sidRaw)
        fail(kind, msg) == [kind |-> kind, msg |-> msg, otp |-> {}]
    IN
    IF ~pn.ok THEN fail("ValidationError", "Invalid request")
    ELSE IF got.kind # "ok" THEN fail("UnauthorizedError", "Invalid session ID")
    ELSE IF VerifyOTP(otpIn, storedOTP.HashedCode) # "ok"
         THEN fail("UnauthorizedError", "Invalid OTP")
    ELSE IF ~sessionIDObj.ok THEN fail("ValidationError", "Invalid session ID format")
    ELSE IF storedOTP.SessionID # sessionIDObj.val
         THEN fail("UnauthorizedError", "Session ID mismatch")
    ELSE [kind |-> "ok", msg |-> "ok", otp |-> got.otp]

\* a login for the phone number is between its first and its last store call
LoginInFlight(q, phone) ==
    loc[q].op = "login" /\ loc[q].phone = phone /\ ~Idle(q)

\* what the history says about the credentials a login presents
LoginNote(phone, code, sid) ==
    (IF RedisLive(GetRedisKey(PhoneString(phone))) # {} THEN {"live"} ELSE {})
    \cup
    (IF \E q \in Procs : LoginInFlight(q, phone) THEN {"overlap"} ELSE {})
    \cup
    (IF \E c \in consumed : /\ c.phone = phone /\ c.code = code /\ c.sid = sid
                              /\ c.epoch = Epoch(phone)
     THEN {"repeat"} ELSE {})
    \cup
    (IF \E c \in sent : /\ c.phone = phone /\ c.code = code /\ c.sid = sid
                        /\ c.epoch = 0
     THEN {"stale"} ELSE {})
    \cup
    (IF \E c \in sent : /\ c.phone = phone /\ c.code = code /\ c.sid = sid
                        /\ c.epoch > 0
     THEN {"current"} ELSE {})
    \cup
    (IF \E c \in sent : c.phone = phone /\ c.epoch > 0 /\ now < c.exp
     THEN {"fresh"} ELSE {})
    \cup
    (IF \E c \in sent : /\ c.phone = phone /\ c.code = code /\ c.sid = sid
                        /\ c.epoch > 0 /\ c.dispatch = "failed"
     THEN {"undelivered"} ELSE {})

\* the request slot the login takes held a login for the phone number that
\* failed while a challenge was in the cache
LoginRetry(p, phone) ==
    IF /\ loc[p].op = "login" /\ loc[p].phone = phone
       /\ pc[p] = "done" /\ res[p].kind = "UnauthorizedError"
       /\ "live" \in loc[p].note
    THEN {"retry"} ELSE {}

\* a login whose failed verification uses up the challenge
LoginStartBurns(p, phoneRaw, otpIn, sidRaw) ==
    /\ Begin(p)
    /\ LET pn == NewPhoneNumber(phoneRaw)
           sessionIDObj == NewSessionIDFromString(sidRaw)
           check == LoginCheck(phoneRaw, otpIn, sidRaw)
       IN
       /\ loc' = [q \in Procs |->
                    IF q = p
                    THEN [NoLoc EXCEPT !.op = "login",
                                       !.phone = pn.val, !.code = otpIn,
                                       !.sid = sessionIDObj.val, !.otp = check.otp,
                                       !.epoch = Epoch(pn.val),
                                       !.note = LoginNote(pn.val, otpIn, sessionIDObj.val)
                                                \cup LoginRetry(p, pn.val)]
                    ELSE IF LoginInFlight(q, pn.val)
                    THEN [loc[q] EXCEPT !.note = @ \cup {"overlap"}]
                    ELSE loc[q]]
       /\ redis' = IF check.kind = "UnauthorizedError" THEN OTPDelete(pn.val) ELSE redis
       /\ IF check.kind = "ok"
          THEN Goto(p, "loginDelete")
          ELSE Finish(p, Err("login", check.kind, check.msg))
    /\ UNCHANGED <<now, users, tokens, nrand, sent, consumed, rotated, loggedOut, asked>>

\* the first step of a login: LoginCheck, with its call of OTPRepository.Get
LoginStart(p, phoneRaw, otpIn, sidRaw) ==
    /\ Begin(p)
    /\ LET pn == NewPhoneNumber(phoneRaw)
           sessionIDObj == NewSessionIDFromString(sidRaw)
           check == LoginCheck(phoneRaw, otpIn, sidRaw)
       IN
       /\ loc' = [q \in Procs |->
                    IF q = p
                    THEN [NoLoc EXCEPT !.op = "login",
                                       !.phone = pn.val, !.code = otpIn,
                                       !.sid = sessionIDObj.val, !.otp = check.otp,
                                       !.epoch = Epoch(pn.val),
                                       !.note = LoginNote(pn.val, otpIn, sessionIDObj.val)
                                                \cup LoginRetry(p, pn.val)]
                    ELSE IF LoginInFlight(q, pn.val)
                    THEN [loc[q] EXCEPT !.note = @ \cup {"overlap"}]
                    ELSE loc[q]]
       /\ IF check.kind = "ok"
          THEN Goto(p, "loginDelete")
          ELSE Finish(p, Err("login", check.kind, check.msg))
    /\ UNCHANGED <<now, redis, users, tokens, nrand, sent, consumed, rotated, loggedOut, asked>>

\* a deletion whose error ends the login
LoginDeleteStrict(p, F) ==
    /\ pc[p] = "loginDelete"
    /\ \E fails \in F :
        /\ redis' = IF fails THEN redis ELSE OTPDelete(loc[p].phone)
        /\ loc' = [loc EXCEPT ![p].note = @ \cup (IF fails THEN {"deleteFailed"} ELSE {})]
        /\ IF fails
           THEN Finish(p, Err("login", "InternalError", "Failed to delete OTP"))
           ELSE Goto(p, "loginGetUser")
    /\ UNCHANGED <<now, users, tokens, nreq, nrand, sent, consumed, rotated, loggedOut, asked>>

\* "Delete used OTP": OTPRepository.Delete; an error is logged and the login
\* goes on
LoginDelete(p, F) ==
    /\ pc[p] = "loginDelete"
    /\ \E fails \in F :
        /\ redis' = IF fails THEN redis ELSE OTPDelete(loc[p].phone)
        /\ loc' = [loc EXCEPT ![p].note = @ \cup (IF fails THEN {"deleteFailed"} ELSE {})]
        /\ Goto(p, "loginGetUser")
    /\ UNCHANGED <<now, users, tokens, nreq, nrand, sent, consumed, rotated, loggedOut, asked>>

\* UserRepository.GetByPhoneNumber
GetByPhoneNumber(phoneNumber) == {u \in users : u.phone_number = phoneNumber}

\* "Check if user exists": any error of the lookup leads to registration
LoginGetUser(p, F) ==
    /\ pc[p] = "loginGetUser"
    /\ \E fails \in F :
        LET found == IF fails THEN {} ELSE GetByPhoneNumber(loc[p].phone) IN
        /\ loc' = [loc EXCEPT ![p].user = found]
        /\ Goto(p, IF found = {} THEN "loginCreateUser" ELSE "loginCreateToken")
    /\ UNCHANGED <<now, redis, users, tokens, nreq, nrand, sent, consumed, rotated, loggedOut, asked>>

\* a user that is created without the default scope
NewUserNoScope(phoneNumber, id) == [id |-> id, phone_number |-> phoneNumber, scope |-> ""]

\* NewUser, with the id of generateUserID
NewUser(phoneNumber, id) == [id |-> id, phone_number |-> phoneNumber, scope |-> "user"]

\* an INSERT into a table users without its constraints
UserCreateNoUnique(user) == users \cup {user}

\* UserRepository.Create: INSERT INTO users, id PRIMARY KEY, phone_number
\* UNIQUE; the table is left as it is when a constraint is violated
UserCreate(user) ==
    IF \E u \in users : u.phone_number = user.phone_number \/ u.id = user.id
    THEN users
    ELSE users \cup {user}

\* "User doesn't exist, create new user (registration)"
LoginCreateUser(p, F) ==
    /\ pc[p] = "loginCreateUser"
    /\ LET user == NewUser(loc[p].phone, NewUUID(nrand + 1)) IN
       \E fails \in F :
        IF fails \/ UserCreate(user) = users
        THEN /\ Finish(p, Err("login", "InternalError", "Failed to create user"))
             /\ UNCHANGED <<users, loc>>
        ELSE /\ users' = UserCreate(user)
             /\ loc' = [loc EXCEPT ![p].user = {user}]
             /\ Goto(p, "loginCreateToken")
    /\ nrand' = nrand + 1
    /\ UNCHANGED <<now, redis, tokens, nreq, sent, consumed, rotated, loggedOut, asked>>

\* a refresh-token row that is bound to no session
NewRefreshTokenUnbound(id, userID, sessionID, tokenHash, ttl) ==
    [id |-> id, user_id |-> userID, session_id |-> <<>>, token_hash |-> tokenHash,
     expires_at |-> now + ttl, revoked_at |-> {}]

\* NewRefreshToken, with the id of generateTokenID; revoked_at is {} (NULL)
\* or holds the time of revocation
NewRefreshToken(id, userID, sessionID, tokenHash, ttl) ==
    [id |-> id, user_id |-> userID, session_id |-> sessionID, token_hash |-> tokenHash,
     expires_at |-> now + ttl, revoked_at |-> {}]

\* TokenRepository.Create: INSERT INTO refresh_tokens, token_hash UNIQUE
TokenCreate(row) ==
    IF \E t \in tokens : t.token_hash = row.token_hash \/ t.id = row.id
    THEN tokens
    ELSE tokens \cup {row}

\* whether, since the login read its challenge, a send-OTP has stored
\* another challenge for the phone number, with another code or session id
Overwritten(p) ==
    IF \E c \in sent : /\ c.phone = loc[p].phone
                        /\ c.epoch > loc[p].epoch
                        /\ (c.code # loc[p].code \/ c.sid # loc[p].sid)
    THEN {"overwritten"} ELSE {}

\* the rest of LoginUseCase.Execute: mint both tokens, store the refresh token
LoginCreateToken(p, F) ==
    /\ pc[p] = "loginCreateToken"
    /\ LET user == CHOOSE u \in loc[p].user : TRUE
           refreshToken == GenerateRandomString(nrand + 1, 32)
           row == NewRefreshToken(NewUUID(nrand + 2), user.id, loc[p].sid,
                                  HashRefreshToken(refreshToken).val, RefreshTTL)
       IN
       \E fails \in F :
        IF fails \/ TokenCreate(row) = tokens
        THEN /\ Finish(p, Err("login", "InternalError", "Failed to store refresh token"))
             /\ UNCHANGED <<tokens, consumed>>
        ELSE /\ tokens' = TokenCreate(row)
             /\ consumed' = consumed \cup
                    {[phone |-> loc[p].phone, code |-> loc[p].code, sid |-> loc[p].sid,
                      epoch |-> loc[p].epoch, user |-> user.id,
                      tok |-> refreshToken]}
             /\ Finish(p, Ok("login", loc[p].sid, refreshToken))
    /\ loc' = [loc EXCEPT ![p].note = @ \cup Overwritten(p)]
    /\ nrand' = nrand + 2
    /\ UNCHANGED <<now, redis, users, nreq, sent, rotated, loggedOut, asked>>

\* ------------------------------------------------------ TokenRepository
\* a lookup that leaves out the session id
GetByTokenHashAnySession(tokenHash, sessionID) ==
    {t \in tokens : t.token_hash = tokenHash}

\* SELECT ... WHERE token_hash = $1 AND session_id = $2
GetByTokenHashAndSessionID(tokenHash, sessionID) ==
    {t \in tokens : t.token_hash = tokenHash /\ t.session_id = sessionID}

\* UserRepository.GetByID
GetByID(id) == {u \in users : u.id = id}

\* RefreshToken.IsExpired: time.Now().After(ExpiresAt)
IsExpired(rt) == now > rt.expires_at

\* a validity check that leaves out the revocation
IsValidIgnoresRevoked(rt) == ~IsExpired(rt)

\* RefreshToken.IsValid; Revoked is set on a read exactly when revoked_at is not NULL
IsValid(rt) == ~IsExpired(rt) /\ rt.revoked_at = {}

\* a revoke that changes no row
RevokeNothing(tokenHash, sessionID) == [rows |-> 0, tokens |-> tokens]

\* UPDATE refresh_tokens SET revoked_at = now
\* WHERE token_hash = $1 AND session_id = $3 AND revoked_at IS NULL
\* [rows, tokens]: the number of rows changed and the table afterwards
RevokeByTokenHashAndSessionID(tokenHash, sessionID) ==
    LET hit == {t \in tokens : /\ t.token_hash = tokenHash
                               /\ t.session_id = sessionID
                               /\ t.revoked_at = {}}
    IN [rows |-> Cardinality(hit),
        tokens |-> (tokens \ hit) \cup {[t EXCEPT !.revoked_at = {now}] : t \in hit}]

\* a revoke without its WHERE on token_hash
RevokeByTokenHashAll(tokenHash) ==
    LET hit == {t \in tokens : t.revoked_at = {}}
    IN [rows |-> Cardinality(hit),
        tokens |-> (tokens \ hit) \cup {[t EXCEPT !.revoked_at = {now}] : t \in hit}]

\* UPDATE refresh_tokens SET revoked_at = now
\* WHERE token_hash = $1 AND revoked_at IS NULL
RevokeByTokenHash(tokenHash) ==
    LET hit == {t \in tokens : t.token_hash = tokenHash /\ t.revoked_at = {}}
    IN [rows |-> Cardinality(hit),
        tokens |-> (tokens \ hit) \cup {[t EXCEPT !.revoked_at = {now}] : t \in hit}]

\* TokenRepository.Update: UPDATE refresh_tokens SET user_id, session_id,
\* token_hash, expires_at, revoked_at WHERE id = $1
TokenUpdate(token) ==
    {IF t.id = token.id
     THEN [t EXCEPT !.user_id = token.user_id, !.session_id = token.session_id,
                    !.token_hash = token.token_hash, !.expires_at = token.expires_at,
                    !.revoked_at = token.revoked_at]
     ELSE t : t \in tokens}

\* ------------------------------------------------------- RefreshUseCase
\* the row a refresh token and session id denote, if there is one
RowOf(tok, sid) ==
    {t \in tokens : t.token_hash = HashRefreshToken(tok).val /\ t.session_id = sid}

\* a refresh of the token and session id is between its first and last store call
RefreshInFlight(q, tok, sid) ==
    loc[q].op = "refresh" /\ loc[q].tok = tok /\ loc[q].sid = sid /\ ~Idle(q)

\* what the history says about the token a refresh presents
RefreshNote(tok, sid) ==
    (IF \E r \in rotated : r.tok = tok /\ r.sid = sid THEN {"reuse"} ELSE {})
    \cup
    (IF [tok |-> tok, sid |-> sid] \in loggedOut THEN {"afterLogout"} ELSE {})
    \cup
    (IF \E t \in RowOf(tok, sid) : IsValid(t) THEN {"valid"} ELSE {})
    \cup
    (IF \E t \in tokens : /\ t.token_hash = HashRefreshToken(tok).val
                           /\ t.session_id # sid
                           /\ IsValid(t)
     THEN {"foreign"} ELSE {})
    \cup
    (IF \E t \in RowOf(tok, sid) : t.revoked_at # {} THEN {"revokedRow"} ELSE {})
    \cup
    (IF \E t \in RowOf(tok, sid) : IsExpired(t) THEN {"expiredRow"} ELSE {})

\* RefreshUseCase.Execute up to the read of the row: the request is
\* validated, the session id parsed, the token hashed, the row read with
\* GetByTokenHashAndSessionID and checked with IsValid
RefreshStart(p, tok, sidRaw, F) ==
    /\ Begin(p)
    /\ LET sessionIDObj == NewSessionIDFromString(sidRaw)
           hashedRefreshToken == HashRefreshToken(tok)
           peers == {q \in Procs : RefreshInFlight(q, tok, sessionIDObj.val)}
       IN
       \E fails \in F :
        LET found == IF fails THEN {}
                     ELSE GetByTokenHashAndSessionID(hashedRefreshToken.val,
                                                     sessionIDObj.val)
            fail(kind, msg) == Finish(p, Err("refresh", kind, msg))
        IN
        /\ loc' = [q \in Procs |->
                     IF q = p
                     THEN [NoLoc EXCEPT !.op = "refresh", !.rid = nreq + 1,
                                        !.tok = tok, !.sid = sessionIDObj.val,
                                        !.hash = hashedRefreshToken.val,
                                        !.stored = found,
                                        !.note = RefreshNote(tok, sessionIDObj.val),
                                        !.peer = {loc[q2].rid : q2 \in peers}]
                     ELSE IF q \in peers
                     THEN [loc[q] EXCEPT !.peer = @ \cup {nreq + 1}]
                     ELSE loc[q]]
        /\ IF sidRaw # <<>> /\ ~sessionIDObj.ok
           THEN fail("ValidationError", "Invalid request data")
           ELSE IF ~sessionIDObj.ok
           THEN fail("ValidationError", "Invalid session ID format")
           ELSE IF ~hashedRefreshToken.ok
           THEN fail("InternalError", "Failed to hash refresh token")
           ELSE IF found = {}
           THEN fail("UnauthorizedError", "Invalid refresh token")
           ELSE IF \E t \in found : ~IsValid(t)
           THEN fail("UnauthorizedError", "Refresh token is expired or revoked")
           ELSE Goto(p, "refreshGetUser")
    /\ UNCHANGED <<now, redis, users, tokens, nrand, sent, consumed, rotated, loggedOut, asked>>

\* "Get user information": UserRepository.GetByID
RefreshGetUser(p, F) ==
    /\ pc[p] = "refreshGetUser"
    /\ \E fails \in F :
        LET storedToken == CHOOSE t \in loc[p].stored : TRUE
            found == IF fails THEN {} ELSE GetByID(storedToken.user_id)
        IN IF found = {}
           THEN /\ Finish(p, Err("refresh", "UnauthorizedError", "User not found"))
                /\ UNCHANGED loc
           ELSE /\ loc' = [loc EXCEPT ![p].user = found]
                /\ Goto(p, "refreshRevoke")
    /\ UNCHANGED <<now, redis, users, tokens, nreq, nrand, sent, consumed,
                   rotated, loggedOut, asked>>

\* "Revoke the old refresh token": the error of
\* RevokeByTokenHashAndSessionID, a store error or no row changed, is logged
\* and the refresh goes on
RefreshRevoke(p, F) ==
    /\ pc[p] = "refreshRevoke"
    /\ \E fails \in F :
        LET revoke == IF fails THEN RevokeNothing(loc[p].hash, loc[p].sid)
                      ELSE RevokeByTokenHashAndSessionID(loc[p].hash, loc[p].sid)
        IN /\ tokens' = revoke.tokens
           /\ loc' = [loc EXCEPT ![p].note =
                        @ \cup (IF revoke.rows = 1 THEN {"revoked"} ELSE {})]
    /\ Goto(p, "refreshCreate")
    /\ UNCHANGED <<now, redis, users, nreq, nrand, sent, consumed, rotated, loggedOut, asked>>

\* "Store new refresh token": TokenRepository.Create
RefreshCreate(p, F) ==
    /\ pc[p] = "refreshCreate"
    /\ LET user == CHOOSE u \in loc[p].user : TRUE
           newRefreshToken == GenerateRandomString(nrand + 1, 32)
           row == NewRefreshToken(NewUUID(nrand + 2), user.id, loc[p].sid,
                                  HashRefreshToken(newRefreshToken).val, RefreshTTL)
       IN
       \E fails \in F :
        IF fails \/ TokenCreate(row) = tokens
        THEN /\ Finish(p, Err("refresh", "InternalError",
                              "Failed to store new refresh token"))
             /\ UNCHANGED <<tokens, loc>>
        ELSE /\ tokens' = TokenCreate(row)
             /\ loc' = [loc EXCEPT ![p].code = newRefreshToken]
             /\ Goto(p, "refreshUpdate")
    /\ nrand' = nrand + 2
    /\ UNCHANGED <<now, redis, users, nreq, sent, consumed, rotated, loggedOut, asked>>

\* "Update last used timestamp for the old token": the row read at the start
\* is written back with TokenRepository.Update, an error is ignored, and the
\* new token pair is returned
RefreshUpdate(p, F) ==
    /\ pc[p] = "refreshUpdate"
    /\ LET storedToken == CHOOSE t \in loc[p].stored : TRUE IN
       \E fails \in F :
        tokens' = IF fails THEN tokens ELSE TokenUpdate(storedToken)
    /\ rotated' = rotated \cup {[tok |-> loc[p].tok, sid |-> loc[p].sid,
                                 new |-> loc[p].code]}
    /\ Finish(p, Ok("refresh", loc[p].sid, loc[p].code))
    /\ UNCHANGED <<now, redis, users, loc, nreq, nrand, sent, consumed, loggedOut, asked>>

\* -------------------------------------------------------- LogoutUseCase
\* what the history says about the token a logout presents
LogoutNote(tok) ==
    (IF \E l \in loggedOut : l.tok = tok THEN {"again"} ELSE {})
    \cup
    (IF \E t \in tokens : /\ t.token_hash = HashRefreshToken(tok).val
                           /\ t.revoked_at # {}
     THEN {"revokedRow"} ELSE {})

\* a logout that reports the NotFoundError of the revoke to the caller
LogoutResultStrict(rows) ==
    IF rows = 0
    THEN Err("logout", "NotFoundError", "Refresh token not found or already revoked")
    ELSE Ok("logout", <<>>, <<>>)

\* the response after the revoke: no row changed is a NotFoundError, which
\* is reported as success, like a revoke that changed a row
LogoutResult(rows) ==
    IF rows = 0 THEN Ok("logout", <<>>, <<>>) ELSE Ok("logout", <<>>, <<>>)

\* LogoutUseCase.Execute.  The token is hashed with HashService.Hash and the
\* session id of the request is used as it is; its one store call is the
\* revoke.
Logout(p, tok, sidRaw, F) ==
    /\ Begin(p)
    /\ IF tok = <<>>
       THEN /\ Finish(p, Ok("logout", <<>>, <<>>))
            /\ loc' = [loc EXCEPT ![p] = [NoLoc EXCEPT !.op = "logout", !.sid = sidRaw]]
            /\ UNCHANGED <<tokens, loggedOut>>
       ELSE \E hashFails \in F, revokeFails \in F :
             LET tokenHash == Hash(tok)
                 revoke == IF sidRaw # <<>>
                           THEN RevokeByTokenHashAndSessionID(tokenHash.val, sidRaw)
                           ELSE RevokeByTokenHash(tokenHash.val)
                 reached == ~hashFails /\ tokenHash.ok /\ ~revokeFails
                 tokensAfter == IF reached THEN revoke.tokens ELSE tokens
             IN /\ tokens' = tokensAfter
                /\ loc' = [loc EXCEPT ![p] =
                             [NoLoc EXCEPT !.op = "logout", !.tok = tok, !.sid = sidRaw,
                                           !.note = LogoutNote(tok) \cup
                                                    (IF tokensAfter # tokens
                                                     THEN {"changed"} ELSE {})]]
                /\ IF hashFails \/ ~tokenHash.ok
                   THEN /\ Finish(p, Err("logout", "InternalError",
                                         "Failed to hash refresh token"))
                        /\ UNCHANGED loggedOut
                   ELSE IF revokeFails
                   THEN /\ Finish(p, Err("logout", "InternalError",
                                         "Failed to revoke refresh token"))
                        /\ UNCHANGED loggedOut
                   ELSE /\ Finish(p, LogoutResult(revoke.rows))
                        /\ loggedOut' = loggedOut \cup
                            (IF LogoutResult(revoke.rows).kind = "ok"
                             THEN {[tok |-> tok, sid |-> t.session_id] :
                                     t \in {t \in tokens :
                                              /\ t.token_hash = HashRefreshToken(tok).val
                                              /\ sidRaw \in {<<>>, t.session_id}
                                              /\ IsValid(t)}}
                             ELSE {})
    /\ UNCHANGED <<now, redis, users, nrand, sent, consumed, rotated, asked>>

\* ------------------------------------------------------ specifications
Init ==
    /\ now = 0
    /\ redis = {}
    /\ users = {}
    /\ tokens = {}
    /\ pc = [p \in Procs |-> "idle"]
    /\ loc = [p \in Procs |-> NoLoc]
    /\ res = [p \in Procs |-> NoRes]
    /\ nreq = 0
    /\ nrand = 0
    /\ sent = {}
    /\ consumed = {}
    /\ rotated = {}
    /\ loggedOut = {}
    /\ asked = {}

\* The OTP challenge protocol: send-OTP and verify-and-login for one phone
\* number, written in its local and its international form, with working
\* stores.
OtpPhones == {Local1, Intl1}
OtpSessionIDs == NewSessionID \cup {ShortSID}

NextOtp ==
    \/ Tick
    \/ \E p \in Procs, phone \in OtpPhones, sid \in NewSessionID \cup {NoString} :
          nreq < MaxOtpReq /\ SendOTPExecute(p, phone, sid, GenerateOTP, NoFault)
    \/ \E p \in Procs, phone \in OtpPhones, code \in GenerateOTP, sid \in OtpSessionIDs :
          nreq < MaxOtpReq /\ LoginStart(p, phone, code, sid)
    \/ \E p \in Procs : LoginDelete(p, NoFault)
    \/ \E p \in Procs : LoginGetUser(p, NoFault)
    \/ \E p \in Procs : LoginCreateUser(p, NoFault)
    \/ \E p \in Procs : LoginCreateToken(p, NoFault)

SpecOtp == Init /\ [][NextOtp]_vars

\* The binding of a challenge to its phone number: send-OTP and
\* verify-and-login for two phone numbers, with working stores.
BindPhones == {Local1, Local2}

NextBind ==
    \/ Tick
    \/ \E p \in Procs, phone \in BindPhones, sid \in NewSessionID :
          nreq < MaxBindReq /\ SendOTPExecute(p, phone, sid, OneOTP, NoFault)
    \/ \E p \in Procs, phone \in BindPhones, code \in GenerateOTP, sid \in NewSessionID :
          nreq < MaxBindReq /\ LoginStart(p, phone, code, sid)
    \/ \E p \in Procs : LoginDelete(p, NoFault)
    \/ \E p \in Procs : LoginGetUser(p, NoFault)
    \/ \E p \in Procs : LoginCreateUser(p, NoFault)
    \/ \E p \in Procs : LoginCreateToken(p, NoFault)

SpecBind == Init /\ [][NextBind]_vars

\* The refresh-token lifecycle: one phone number logs in with one session
\* id, and the tokens it was handed are refreshed and logged out, with
\* working stores.
TokSessionID == Rep("a", SessionIDLength * 2)

\* a well-formed session id that no login of the behaviour was bound to
OtherSessionID == Rep("b", SessionIDLength * 2)

\* a string that is no refresh token
BogusToken == Rep("-", 32)

\* strings a client presents as a refresh token: the refresh tokens handed
\* out so far and one that was never handed out
KnownTokens ==
    {tok \in {GenerateRandomString(n, 32) : n \in 1..nrand} :
        \E t \in tokens : t.token_hash = HashRefreshToken(tok).val}
    \cup {BogusToken}

NextTok ==
    \/ Tick
    \/ \E p \in Procs :
          nreq < MaxTokReq /\ SendOTPExecute(p, Local1, TokSessionID, OneOTP, NoFault)
    \/ \E p \in Procs, code \in OneOTP :
          nreq < MaxTokReq /\ LoginStart(p, Local1, code, TokSessionID)
    \/ \E p \in Procs : LoginDelete(p, NoFault)
    \/ \E p \in Procs : LoginGetUser(p, NoFault)
    \/ \E p \in Procs : LoginCreateUser(p, NoFault)
    \/ \E p \in Procs : LoginCreateToken(p, NoFault)
    \/ \E p \in Procs, tok \in KnownTokens :
          nreq < MaxTokReq /\ RefreshStart(p, tok, TokSessionID, NoFault)
    \/ \E p \in Procs : RefreshGetUser(p, NoFault)
    \/ \E p \in Procs : RefreshRevoke(p, NoFault)
    \/ \E p \in Procs : RefreshCreate(p, NoFault)
    \/ \E p \in Procs : RefreshUpdate(p, NoFault)
    \/ \E p \in Procs, tok \in KnownTokens, sid \in {TokSessionID, NoString} :
          nreq < MaxTokReq /\ Logout(p, tok, sid, NoFault)

SpecTok == Init /\ [][NextTok]_vars

\* The rate-limited send-OTP endpoint: one client address asks for codes
\* for one phone number, written in its local and its international form,
\* one request after another, with working stores.
ClientIP == <<"10.0.0.1">>

RatePhones == {Local1, Intl1}

NextRate ==
    \/ Tick
    \/ \E p \in Procs, phone \in RatePhones :
          /\ nreq < MaxRateReq
          /\ \A q \in Procs : Idle(q)
          /\ IPBasedRateLimitCheck(p, ClientIP, phone, TokSessionID, NoFault)
    \/ \E p \in Procs : IPBasedRateLimitCount(p, NoFault)
    \/ \E p \in Procs : OtpRateLimitCheck(p, NoFault)
    \/ \E p \in Procs : OtpRateLimitCount(p, NoFault)
    \/ \E p \in Procs : AuthHandlerSendOTP(p, OneOTP, NoFault)

SpecRate == Init /\ [][NextRate]_vars

\* ------------------------------------------------- OTP challenge claims
LoginOf(p) == loc[p].op = "login"

Returned(p) == pc[p] = "done"

C6_OneLoginPerChallenge ==
    \A p, q \in Procs :
        ( /\ p # q
          /\ LoginOf(p) /\ LoginOf(q)
          /\ Returned(p) /\ Returned(q)
          /\ loc[p].phone = loc[q].phone /\ loc[p].epoch = loc[q].epoch )
        => ~(res[p].kind = "ok" /\ res[q].kind = "ok")

\* the cache holds at most one challenge for a phone number
OneChallengePerPhone ==
    \A e1, e2 \in redis : e1.key = e2.key => e1 = e2

\* C7 as stated: after a later send-OTP for the phone number, a login with the
\* code and session id of an earlier send-OTP fails with UnauthorizedError,
\* and the cache holds at most one challenge for a phone number.
C7_FirstChallengeDead ==
    /\ OneChallengePerPhone
    /\ \A p \in Procs :
        (LoginOf(p) /\ "stale" \in loc[p].note)
        => (Returned(p) /\ res[p].kind = "UnauthorizedError")

\* C7 amended: the same, unless the latest send-OTP for the phone number drew
\* the same code and was bound to the same session id as the earlier one.
C7_SupersededChallengeDead ==
    /\ OneChallengePerPhone
    /\ \A p \in Procs :
        (LoginOf(p) /\ "stale" \in loc[p].note /\ "current" \notin loc[p].note)
        => (Returned(p) /\ res[p].kind = "UnauthorizedError")

\* a login with the credentials of a superseded challenge has failed while
\* the challenge that replaced it is live
C7_Witness ==
    \E p \in Procs :
        /\ LoginOf(p) /\ Returned(p)
        /\ {"stale", "live"} \subseteq loc[p].note
        /\ "current" \notin loc[p].note
        /\ res[p].kind = "UnauthorizedError"

\* C8: a login gets past verification, and returns tokens, only if a
\* challenge stored for its phone number was within its TTL when the login
\* read it and the code and the session id presented are those of that
\* challenge, the latest one stored for the phone number.
C8_SessionBinding ==
    \A p \in Procs :
        (LoginOf(p) /\ (~Returned(p) \/ res[p].kind = "ok"))
        => {"current", "fresh"} \subseteq loc[p].note

\* a login has returned tokens while another phone number has a challenge
\* with another code or session id
C8_Witness ==
    \E p \in Procs, c \in sent :
        /\ LoginOf(p) /\ Returned(p) /\ res[p].kind = "ok"
        /\ c.phone # loc[p].phone
        /\ (c.code # loc[p].code \/ c.sid # loc[p].sid)

\* C9: for a live challenge and a session id that is not the bound one, the
\* outcome of the verification is the same for the right and a wrong code.
C9_NoCodeOracle ==
    \A phone \in OtpPhones, sid \in OtpSessionIDs, wrong \in GenerateOTP, c \in sent :
        ( /\ c.phone = NewPhoneNumber(phone).val
          /\ c.epoch > 0
          /\ RedisLive(GetRedisKey(PhoneString(c.phone))) # {}
          /\ c.sid # TrimSpace(sid)
          /\ wrong # c.code )
        => LET right == LoginCheck(phone, c.code, sid)
               guess == LoginCheck(phone, wrong, sid)
           IN right.kind = guess.kind /\ right.msg = guess.msg

\* ------------------------------------------------ refresh token claims
RefreshOf(p) == loc[p].op = "refresh"

\* C1: a refresh that presents a token and session id that an earlier
\* refresh has rotated fails with UnauthorizedError, and a token issued by a
\* refresh is rotated by at most one refresh.
C1_RotationKillsPredecessor ==
    /\ \A p \in Procs :
        (RefreshOf(p) /\ "reuse" \in loc[p].note)
        => (Returned(p) /\ res[p].kind = "UnauthorizedError")
    /\ \A r0, r1, r2 \in rotated :
        (r0.new = r1.tok /\ r1.tok = r2.tok /\ r1.sid = r2.sid) => r1 = r2

\* C2: of two refreshes that overlap and present the same token and session
\* id, valid when each of them started, exactly one returns a token pair.
C2_OneConcurrentRefreshWins ==
    \A p, q \in Procs :
        ( /\ p # q
          /\ RefreshOf(p) /\ RefreshOf(q)
          /\ Returned(p) /\ Returned(q)
          /\ loc[p].tok = loc[q].tok /\ loc[p].sid = loc[q].sid
          /\ loc[q].rid \in loc[p].peer
          /\ "valid" \in loc[p].note /\ "valid" \in loc[q].note )
        => (res[p].kind = "ok") # (res[q].kind = "ok")

\* C3: no step sets revoked_at of a revoked row back to NULL.
C3_RevokedStaysRevoked ==
    [][\A t \in tokens : \A u \in tokens' :
          (t.revoked_at # {} /\ u.id = t.id) => u.revoked_at # {}]_vars

\* C4: after a logout with the token of an active row has reported success
\* the row is revoked, and a refresh with that token and session id that
\* starts later fails with UnauthorizedError.
C4_LogoutRevokes ==
    /\ \A l \in loggedOut : \A t \in RowOf(l.tok, l.sid) : t.revoked_at # {}
    /\ \A p \in Procs :
        (RefreshOf(p) /\ "afterLogout" \in loc[p].note)
        => (Returned(p) /\ res[p].kind = "UnauthorizedError")

\* ---------------------------------------------------- rate limit claims
\* the send-OTP requests for a phone number
AskedFor(phone) == {a \in asked : a.phone = phone}

\* C10: while the requests for a phone number come one after another, the
\* first OTPLimit of them succeed; a later one that is answered before a
\* window has passed since the first arrived fails with RateLimitError; and
\* a request that arrives when a window has passed since every earlier
\* request for the phone number was answered succeeds.
C10_ThreePerWindow ==
    \A a \in asked :
        LET mine == AskedFor(a.phone)
            first == CHOOSE f \in mine : \A b \in mine : f.rid <= b.rid
            nth == Cardinality({b \in mine : b.rid <= a.rid})
        IN ( /\ a.kind # "pending"
             /\ \A b \in mine : b.solo )
           => /\ nth <= OTPLimit => a.kind = "ok"
              /\ (nth > OTPLimit /\ a.end < first.at + OTPWindow)
                 => a.kind = "RateLimitError"
              /\ (\A b \in mine : b.rid < a.rid => a.at >= b.end + OTPWindow)
                 => a.kind = "ok"

\* ------------------------------------------- the RateLimiter on its own
\* the count CheckAndIncrement reads with GET: 0 for a missing key
CheckAndIncrementCount(key) ==
    LET live == RedisLive(RateLimitKey(key))
    IN IF live = {} THEN 0 ELSE Atoi((CHOOSE e \in live : TRUE).val).val

\* a call of CheckAndIncrement for the key is between its two store calls
LimitInFlight(q, key) ==
    loc[q].op = "limit" /\ loc[q].raw = key /\ ~Idle(q)

\* CheckAndIncrement up to its decision: the GET and the comparison with the
\* limit.  The call returns (false, count) at the limit and goes on to the
\* pipeline below it.
CheckAndIncrementGet(p, key, limit, F) ==
    /\ Begin(p)
    /\ LET peers == {q \in Procs : LimitInFlight(q, key)} IN
       loc' = [q \in Procs |->
                 IF q = p
                 THEN [NoLoc EXCEPT !.op = "limit", !.rid = nreq + 1, !.raw = key,
                                    !.epoch = CheckAndIncrementCount(key),
                                    !.peer = {loc[q2].rid : q2 \in peers}]
                 ELSE IF q \in peers
                 THEN [loc[q] EXCEPT !.peer = @ \cup {nreq + 1}]
                 ELSE loc[q]]
    /\ \E fails \in F :
        LET verdict == IF fails THEN "error" ELSE CheckAndIncrementRead(key, limit)
        IN IF verdict = "error"
           THEN Finish(p, Err("limit", "InternalError", "Failed to check rate limit"))
           ELSE IF verdict = "reject"
           THEN Finish(p, Err("limit", "denied", "denied"))
           ELSE Goto(p, "limitPipeline")
    /\ UNCHANGED <<now, redis, users, tokens, nrand, sent, consumed, rotated, loggedOut, asked>>

\* CheckAndIncrement after its decision: the pipeline INCR, EXPIRE window,
\* and the return of (true, count + 1) with the count read by the GET
CheckAndIncrementPipeline(p, window, F) ==
    /\ pc[p] = "limitPipeline"
    /\ \E fails \in F :
        IF fails
        THEN /\ redis' = redis
             /\ Finish(p, Err("limit", "InternalError",
                              "Failed to increment rate limit counter"))
        ELSE /\ redis' = CheckAndIncrementWrite(loc[p].raw, window)
             /\ Finish(p, Ok("limit", <<>>, <<>>))
    /\ UNCHANGED <<now, users, tokens, loc, nreq, nrand, sent, consumed,
                   rotated, loggedOut, asked>>

\* The rate limiter under concurrent callers: CheckAndIncrement is called
\* for two keys with the limit and window of the send-OTP route, with a
\* working store.
LimitKeys == {OtpRateLimitKey(Local1), OtpRateLimitKey(Intl1)}

NextLimit ==
    \/ Tick
    \/ \E p \in Procs, key \in LimitKeys :
          nreq < MaxLimReq /\ CheckAndIncrementGet(p, key, OTPLimit, NoFault)
    \/ \E p \in Procs : CheckAndIncrementPipeline(p, OTPWindow, NoFault)

SpecLimit == Init /\ [][NextLimit]_vars

LimitOf(p) == loc[p].op = "limit"

\* C11: CheckAndIncrement is atomic.  A counter never exceeds the limit, so
\* at most limit calls are allowed while it lives, and two calls for a key
\* that overlap and are both allowed return different counts.
C11_AtomicCheckAndIncrement ==
    /\ \A e \in redis :
        HasPrefix(e.key, <<"rate_limit:">>) => Atoi(e.val).val <= OTPLimit
    /\ \A p, q \in Procs :
        ( /\ p # q
          /\ LimitOf(p) /\ LimitOf(q)
          /\ Returned(p) /\ Returned(q)
          /\ loc[p].raw = loc[q].raw
          /\ loc[q].rid \in loc[p].peer
          /\ res[p].kind = "ok" /\ res[q].kind = "ok" )
        => loc[p].epoch # loc[q].epoch

\* C12: the counter of the phone rate limit is keyed by the canonical phone
\* number, so the requests that give one number in its local and in its
\* international form count on one counter: of the requests for one number
\* that arrive and are answered at the same time at most OTPLimit succeed.
C12_CanonicalRateKey ==
    /\ \A e \in redis :
        HasPrefix(e.key, <<"rate_limit:", "phone:">>)
        => LET raw == SubSeq(e.key, 3, Len(e.key))
           IN NewPhoneNumber(raw).ok => raw = NewPhoneNumber(raw).val
    /\ \A a \in asked :
        Cardinality({b \in AskedFor(a.phone) :
                        b.kind = "ok" /\ b.at = a.at /\ b.end = a.at}) <= OTPLimit

\* The session binding of refresh tokens: one phone number logs in with one
\* session id, and the tokens it was handed are refreshed under that session
\* id and under another one, with working stores.
NextSess ==
    \/ Tick
    \/ \E p \in Procs :
          nreq < MaxSessReq /\ SendOTPExecute(p, Local1, TokSessionID, OneOTP, NoFault)
    \/ \E p \in Procs, code \in OneOTP :
          nreq < MaxSessReq /\ LoginStart(p, Local1, code, TokSessionID)
    \/ \E p \in Procs : LoginDelete(p, NoFault)
    \/ \E p \in Procs : LoginGetUser(p, NoFault)
    \/ \E p \in Procs : LoginCreateUser(p, NoFault)
    \/ \E p \in Procs : LoginCreateToken(p, NoFault)
    \/ \E p \in Procs, tok \in KnownTokens, sid \in {TokSessionID, OtherSessionID} :
          nreq < MaxSessReq /\ RefreshStart(p, tok, sid, NoFault)
    \/ \E p \in Procs : RefreshGetUser(p, NoFault)
    \/ \E p \in Procs : RefreshRevoke(p, NoFault)
    \/ \E p \in Procs : RefreshCreate(p, NoFault)
    \/ \E p \in Procs : RefreshUpdate(p, NoFault)

SpecSess == Init /\ [][NextSess]_vars

\* the refresh tokens handed out so far
IssuedTokens == KnownTokens \ {BogusToken}

\* Logout of the tokens that were handed out: one phone number logs in with
\* one session id, and its tokens are refreshed and logged out, with and
\* without the session id, with working stores.  The requests are made
\* within the TTL of the challenge and of the tokens: the clock stands.
NextOut ==
    \/ \E p \in Procs :
          nreq < MaxOutReq /\ SendOTPExecute(p, Local1, TokSessionID, OneOTP, NoFault)
    \/ \E p \in Procs, code \in OneOTP :
          nreq < MaxOutReq /\ LoginStart(p, Local1, code, TokSessionID)
    \/ \E p \in Procs : LoginDelete(p, NoFault)
    \/ \E p \in Procs : LoginGetUser(p, NoFault)
    \/ \E p \in Procs : LoginCreateUser(p, NoFault)
    \/ \E p \in Procs : LoginCreateToken(p, NoFault)
    \/ \E p \in Procs, tok \in IssuedTokens :
          nreq < MaxOutReq /\ RefreshStart(p, tok, TokSessionID, NoFault)
    \/ \E p \in Procs : RefreshGetUser(p, NoFault)
    \/ \E p \in Procs : RefreshRevoke(p, NoFault)
    \/ \E p \in Procs : RefreshCreate(p, NoFault)
    \/ \E p \in Procs : RefreshUpdate(p, NoFault)
    \/ \E p \in Procs, tok \in IssuedTokens, sid \in {TokSessionID, NoString} :
          nreq < MaxOutReq /\ Logout(p, tok, sid, NoFault)

SpecOut == Init /\ [][NextOut]_vars

\* ------------------------------------------ refresh and logout claims
\* C13: a refresh that presents the token of an active row with a
\* well-formed session id that is not the one of the row ends in its first
\* step with UnauthorizedError and changes no row of refresh_tokens.
C13_ForeignSessionRejected ==
    [][\A p \in Procs :
          ( /\ loc'[p].op = "refresh"
            /\ loc'[p].rid # loc[p].rid
            /\ "foreign" \in loc'[p].note )
          => /\ pc'[p] = "done"
             /\ res'[p].kind = "UnauthorizedError"
             /\ tokens' = tokens]_vars

\* a refresh under another session id has failed and the row of the token
\* is still active
C13_Witness ==
    \E p \in Procs :
        /\ RefreshOf(p) /\ Returned(p)
        /\ "foreign" \in loc[p].note
        /\ res[p].kind = "UnauthorizedError"
        /\ \E t \in tokens : t.token_hash = loc[p].hash /\ IsValid(t)

LogoutOf(p) == loc[p].op = "logout"

\* C17: a logout that presents a token for which an earlier logout has
\* reported success, or whose row is revoked, reports success and changes no
\* row of refresh_tokens.
C17_LogoutIdempotent ==
    \A p \in Procs :
        (LogoutOf(p) /\ loc[p].note \cap {"again", "revokedRow"} # {})
        => /\ Returned(p)
           /\ res[p].kind = "ok"
           /\ "changed" \notin loc[p].note

\* a second logout with the same token, whose row was revoked when the
\* logout was made, has reported success
C17_Witness ==
    \E p \in Procs :
        /\ LogoutOf(p) /\ Returned(p)
        /\ {"again", "revokedRow"} \subseteq loc[p].note
        /\ res[p].kind = "ok"

\* Logout with stores that can fail: one phone number logs in, and logout is
\* called with the tokens it was handed and with a string that is no token,
\* while the hashing and the revoke of a logout may fail.
NextFault ==
    \/ Tick
    \/ \E p \in Procs :
          nreq < MaxFaultReq /\ SendOTPExecute(p, Local1, TokSessionID, OneOTP, NoFault)
    \/ \E p \in Procs, code \in OneOTP :
          nreq < MaxFaultReq /\ LoginStart(p, Local1, code, TokSessionID)
    \/ \E p \in Procs : LoginDelete(p, NoFault)
    \/ \E p \in Procs : LoginGetUser(p, NoFault)
    \/ \E p \in Procs : LoginCreateUser(p, NoFault)
    \/ \E p \in Procs : LoginCreateToken(p, NoFault)
    \/ \E p \in Procs, tok \in KnownTokens \cup {NoString},
          sid \in {TokSessionID, NoString} :
          nreq < MaxFaultReq /\ Logout(p, tok, sid, Faults)

SpecFault == Init /\ [][NextFault]_vars

\* C18: every logout that has returned has reported success, whatever the
\* token and the session id it presented and whether or not the hashing or
\* the revoke failed.
C18_LogoutNeverFails ==
    \A p \in Procs : (LogoutOf(p) /\ Returned(p)) => res[p].kind = "ok"

\* ----------------------------------------------------------- user claims
\* Registration on login: one phone number, written in its local and its
\* international form, asks for codes and logs in, with working stores.
NextUser ==
    \/ Tick
    \/ \E p \in Procs, phone \in OtpPhones :
          nreq < MaxUserReq /\ SendOTPExecute(p, phone, TokSessionID, OneOTP, NoFault)
    \/ \E p \in Procs, phone \in OtpPhones, code \in OneOTP :
          nreq < MaxUserReq /\ LoginStart(p, phone, code, TokSessionID)
    \/ \E p \in Procs : LoginDelete(p, NoFault)
    \/ \E p \in Procs : LoginGetUser(p, NoFault)
    \/ \E p \in Procs : LoginCreateUser(p, NoFault)
    \/ \E p \in Procs : LoginCreateToken(p, NoFault)

SpecUser == Init /\ [][NextUser]_vars

C16_OneUserPerPhone ==
    /\ \A u1, u2 \in users : u1.phone_number = u2.phone_number => u1 = u2
    /\ \A u \in users : NewPhoneNumber(u.phone_number).val = u.phone_number

\* two first logins for one phone number have overlapped: both found no
\* user, one of them has created the row and the other one has failed
C16_Witness ==
    \E p \in Procs :
        /\ LoginOf(p) /\ Returned(p)
        /\ res[p].msg = "Failed to create user"
        /\ \E u \in users : u.phone_number = loc[p].phone

\* ------------------------------------------- verification error claims
\* C19: a login that read a live challenge and has failed has failed with
\* UnauthorizedError, whatever code and whatever string as session id it
\* presented.
C19_FailedVerificationUnauthorized ==
    \A p \in Procs :
        ( /\ LoginOf(p) /\ Returned(p)
          /\ "live" \in loc[p].note
          /\ res[p].kind # "ok"
          /\ res[p].msg # "Failed to create user"
          /\ res[p].msg # "Failed to store refresh token" )
        => res[p].kind = "UnauthorizedError"

\* C20: a login for a well-formed phone number that has no live challenge
\* has failed with NotFoundError.
C20_NoChallengeNotFound ==
    \A p \in Procs :
        ( /\ LoginOf(p) /\ Returned(p)
          /\ loc[p].phone # <<>>
          /\ "live" \notin loc[p].note )
        => res[p].kind = "NotFoundError"

\* ------------------------------------------------ overwrite on resend
\* C21: a login that has not returned when a send-OTP stores another
\* challenge for its phone number, with another code or session id, does
\* not return tokens.
C21_StaleLoginFails ==
    \A p \in Procs :
        (LoginOf(p) /\ Returned(p) /\ "overwritten" \in loc[p].note)
        => res[p].kind # "ok"

\* ------------------------------------------- send-OTP and login with faults
\* the session ids a send-OTP request carries: a well-formed one, none, and a
\* malformed one
SendSessionIDs == {TokSessionID, NoString, ShortSID}

\* Send-OTP and login for one phone number, while the store and the dispatch
\* of a send-OTP and the deletion of a login may fail.
NextSend ==
    \/ Tick
    \/ \E p \in Procs, sid \in SendSessionIDs :
          nreq < MaxSendReq /\ SendOTPExecute(p, Local1, sid, OneOTP, Faults)
    \/ \E p \in Procs, code \in OneOTP, sid \in NewSessionID :
          nreq < MaxSendReq /\ LoginStart(p, Local1, code, sid)
    \/ \E p \in Procs : LoginDelete(p, Faults)
    \/ \E p \in Procs : LoginGetUser(p, NoFault)
    \/ \E p \in Procs : LoginCreateUser(p, NoFault)
    \/ \E p \in Procs : LoginCreateToken(p, NoFault)

SpecSend == Init /\ [][NextSend]_vars

SendOf(p) == loc[p].op = "send"

\* C22: a send-OTP whose dispatch fails returns InternalError and leaves the
\* challenge it stored in the cache, with its TTL; and a login that presents
\* the code and session id of the current challenge of its phone number,
\* whose dispatch failed and which is in the cache, returns tokens unless
\* another login for the phone number overlaps.
C22_UndeliveredChallengeStaysLive ==
    [][\A p \in Procs :
          /\ ( /\ Idle(p) /\ nreq' # nreq
               /\ \A q \in Procs : q < p => ~Idle(q)
               /\ loc'[p].op = "send"
               /\ res'[p].msg = "Failed to send OTP" )
             => /\ res'[p].kind = "InternalError"
                /\ \E c \in sent' : \E e \in redis' :
                      /\ c.phone = loc'[p].phone /\ c.epoch > 0
                      /\ c.dispatch = "failed"
                      /\ e.key = GetRedisKey(PhoneString(c.phone))
                      /\ e.val = GetRedisValue(c.sid, HashOTP(c.code).val)
                      /\ e.exp = now + OtpTTL
          /\ ( /\ loc'[p].op = "login"
               /\ pc'[p] = "done" /\ (pc[p] # "done" \/ nreq' # nreq)
               /\ {"current", "live", "undelivered"} \subseteq loc'[p].note
               /\ "overlap" \notin loc'[p].note )
             => res'[p].kind = "ok"]_vars

\* a login with the code and session id of a challenge whose dispatch failed
\* has returned tokens, and a send-OTP has reported the failure
C22_Witness ==
    \E p, q \in Procs :
        /\ LoginOf(p) /\ Returned(p)
        /\ {"current", "live", "undelivered"} \subseteq loc[p].note
        /\ res[p].kind = "ok"
        /\ SendOf(q) /\ Returned(q)
        /\ res[q].kind = "InternalError" /\ res[q].msg = "Failed to send OTP"

\* C23: a send-OTP whose store and dispatch did not fail succeeds; it returns
\* the session id of the request when that one is well formed, and otherwise
\* a new random session id, and the challenge of the phone number is then
\* bound to the session id it returned.
C23_SessionIdResolved ==
    \A p \in Procs :
        (SendOf(p) /\ Returned(p) /\ res[p].kind # "InternalError")
        => /\ res[p].kind = "ok"
           /\ IF NewSessionIDFromString(loc[p].sid).ok
              THEN res[p].sid = NewSessionIDFromString(loc[p].sid).val
              ELSE res[p].sid \in NewSessionID
           /\ \E c \in sent : c.phone = loc[p].phone /\ c.sid = res[p].sid

\* C25: a login whose deletion of the challenge failed, and that overlaps
\* with no other login for the phone number, returns tokens.
C25_DeleteFailureIgnored ==
    \A p \in Procs :
        ( /\ LoginOf(p) /\ Returned(p)
          /\ "deleteFailed" \in loc[p].note
          /\ "overlap" \notin loc[p].note )
        => res[p].kind = "ok"

\* a login whose deletion failed has returned tokens, and the challenge it
\* verified is still in the cache
C25_Witness ==
    \E p \in Procs :
        /\ LoginOf(p) /\ Returned(p)
        /\ "deleteFailed" \in loc[p].note
        /\ res[p].kind = "ok"
        /\ OTPGet(loc[p].phone).otp # {}

\* C24: a step in which a send-OTP is made leaves the tables users and
\* refresh_tokens as they are, and every key of the cache it adds, removes or
\* changes is the challenge key of the phone number of the request.
C24_SendTouchesOnlyChallenge ==
    [][\A p \in Procs :
          ( /\ Idle(p) /\ nreq' # nreq
            /\ \A q \in Procs : q < p => ~Idle(q)
            /\ loc'[p].op = "send" )
          => /\ users' = users
             /\ tokens' = tokens
             /\ \A e \in (redis' \ redis) \cup (redis \ redis') :
                   e.key = GetRedisKey(PhoneString(loc'[p].phone))]_vars

\* a send-OTP has stored a challenge for a phone number that has a user row
\* and a refresh-token row
C24_Witness ==
    \E p \in Procs :
        /\ SendOf(p) /\ Returned(p) /\ res[p].kind = "ok"
        /\ \E u \in users : u.phone_number = loc[p].phone
        /\ tokens # {}
        /\ RedisLive(GetRedisKey(PhoneString(loc[p].phone))) # {}

\* ------------------------------------------------------------ user routes
\* An access token is [signed, scopes, exp]: whether its signature verifies
\* under the key of the service, and the scopes and exp of its claims.  A
\* cookie is {} (absent or empty) or holds one token.

\* ECDSAJWTService.VerifyToken: the signature and the exp claim are checked
VerifyToken(token) == token.signed /\ ~(now > token.exp)

\* JWTClaims.IsExpired
ClaimsIsExpired(token) == now > token.exp

\* AuthMiddleware.RequireAuth: [kind, msg], kind "ok" when the request goes on
RequireAuth(cookie) ==
    IF cookie = {}
    THEN [kind |-> "UnauthorizedError", msg |-> "Authorization token required"]
    ELSE LET token == CHOOSE t \in cookie : TRUE IN
         IF ~VerifyToken(token)
         THEN [kind |-> "UnauthorizedError", msg |-> "Invalid or expired token"]
         ELSE IF ClaimsIsExpired(token)
         THEN [kind |-> "UnauthorizedError", msg |-> "Token has expired"]
         ELSE [kind |-> "ok", msg |-> "ok"]

\* users.GET("/", authMiddleware.RequireAuth(), userHandler.GetUsers): the
\* middleware of the route
UsersMiddleware(p, cookie) ==
    /\ Begin(p)
    /\ loc' = [loc EXCEPT ![p] = [NoLoc EXCEPT !.op = "users", !.cookie = cookie]]
    /\ IF RequireAuth(cookie).kind = "ok"
       THEN Goto(p, "getUsers")
       ELSE Finish(p, Err("users", RequireAuth(cookie).kind, RequireAuth(cookie).msg))
    /\ UNCHANGED <<now, redis, users, tokens, nrand, sent, consumed, rotated, loggedOut, asked>>

\* UserHandler.GetUsers: GetUsersListUseCase.Execute reads the list of users
\* with UserRepository.List and the list is returned
GetUsers(p, F) ==
    /\ pc[p] = "getUsers"
    /\ \E fails \in F :
          IF fails
          THEN Finish(p, Err("users", "InternalError", "Failed to query users"))
          ELSE Finish(p, Ok("users", <<>>, <<>>))
    /\ UNCHANGED <<now, redis, users, tokens, loc, nreq, nrand, sent, consumed, rotated,
                   loggedOut, asked>>

\* the scopes of the tokens the service signs: the scope of the user row
UserScopes == {"user", "admin", "superadmin"}

\* the cookies of a request: none, a token the service signed for a user of
\* one of the scopes, and a token with a signature of another key
AccessCookies ==
    {{}} \cup {{[signed |-> sg, scopes |-> {sc}, exp |-> e]} :
                  sg \in BOOLEAN, sc \in UserScopes, e \in 1..MaxTime}

\* GET /api/v1/users with working stores
NextAdmin ==
    \/ Tick
    \/ \E p \in Procs, cookie \in AccessCookies :
          nreq < MaxAdminReq /\ UsersMiddleware(p, cookie)
    \/ \E p \in Procs : GetUsers(p, NoFault)

SpecAdmin == Init /\ [][NextAdmin]_vars

UsersOf(p) == loc[p].op = "users"

\* C26: a request for the list of users that has returned the list carried a
\* token with scope "admin" or "superadmin", and a request whose token has
\* the one scope "user" has not returned the list.
C26_UsersAdminOnly ==
    \A p \in Procs :
        (UsersOf(p) /\ Returned(p))
        => /\ res[p].kind = "ok"
              => \E t \in loc[p].cookie : t.scopes \cap {"admin", "superadmin"} # {}
           /\ (\E t \in loc[p].cookie : t.scopes = {"user"})
              => res[p].kind # "ok"

\* ------------------------------------------------------- phone number claims
\* the parts phone numbers are written with: what stands before the
\* subscriber number, the subscriber number, and the space around both
PhonePrefixes ==
    {<<"0">>, <<"+", "9", "8">>, <<"+", "1">>, <<"+", "9", "7", "1">>,
     <<"+">>, <<"9", "8">>, <<>>}

PhoneSubscribers ==
    {<<"9", "1", "2", "3", "4", "5", "6", "7", "8", "9">>,
     <<"8", "1", "2", "3", "4", "5", "6", "7", "8", "9">>,
     <<"9", "1", "2", "3", "4", "5", "6", "7", "8">>,
     <<"9", "1", "2", "3", "4", "5", "6", "7", "8", "9", "0">>,
     <<"9", "1", "2", "3", "4", "5", "6", "7", "8", "x">>,
     <<>>}

PhonePadding == {<<>>, <<" ">>}

PhoneInputs ==
    {l \o pre \o sub \o r :
        l \in PhonePadding, pre \in PhonePrefixes, sub \in PhoneSubscribers,
        r \in PhonePadding}

\* a call of NewPhoneNumber
PhoneNew(p, phone) ==
    /\ Begin(p)
    /\ loc' = [loc EXCEPT ![p] = [NoLoc EXCEPT !.op = "phone", !.raw = phone,
                                                !.phone = NewPhoneNumber(phone).val]]
    /\ IF NewPhoneNumber(phone).ok
       THEN Goto(p, "phoneString")
       ELSE Finish(p, Err("phone", "error", "invalid phone number"))
    /\ UNCHANGED <<now, redis, users, tokens, nrand, sent, consumed, rotated, loggedOut, asked>>

\* a call of PhoneNumber.String on the value NewPhoneNumber returned
PhoneStringOf(p) ==
    /\ pc[p] = "phoneString"
    /\ Finish(p, [Ok("phone", <<>>, <<>>) EXCEPT !.val = PhoneString(loc[p].phone)])
    /\ UNCHANGED <<now, redis, users, tokens, loc, nreq, nrand, sent, consumed, rotated,
                   loggedOut, asked>>

\* NewPhoneNumber and PhoneNumber.String applied to the inputs
NextPhone ==
    \/ \E p \in Procs, phone \in PhoneInputs : nreq < MaxPhoneReq /\ PhoneNew(p, phone)
    \/ \E p \in Procs : PhoneStringOf(p)

SpecPhone == Init /\ [][NextPhone]_vars

PhoneOf(p) == loc[p].op = "phone"

\* ten digits of which the first one is 9
IsSubscriber(d) == Len(d) = 10 /\ d[1] = "9" /\ \A i \in 1..10 : d[i] \in Digits

\* one to three digits
IsCountryCode(cc) == Len(cc) \in 1..3 /\ \A i \in 1..Len(cc) : cc[i] \in Digits

\* the call of task p was given prefix pre followed by subscriber number d
Given(p, pre, d) == loc[p].raw = pre \o d

Accepted(p) == pc[p] = "phoneString" \/ (Returned(p) /\ res[p].kind = "ok")

Rejected(p) == Returned(p) /\ res[p].kind = "error"

\* C27: NewPhoneNumber accepts 0 followed by a subscriber number of ten
\* digits starting with 9 and returns +98 followed by that number, the value
\* it returns for +98 followed by the same number; it accepts + followed by a
\* country code and such a subscriber number and returns it unchanged; it
\* rejects the empty input and every input whose ten-digit subscriber number
\* does not start with 9; and String returns the value of NewPhoneNumber,
\* which starts with +.
C27_PhoneCanonical ==
    \A p \in Procs :
        PhoneOf(p) =>
        /\ \A d \in PhoneSubscribers :
              /\ (IsSubscriber(d) /\ Given(p, <<"0">>, d))
                 => (Accepted(p) /\ loc[p].phone = <<"+", "9", "8">> \o d)
              /\ \A pre \in PhonePrefixes :
                    /\ ( /\ IsSubscriber(d) /\ Given(p, pre, d)
                         /\ pre # <<>> /\ Head(pre) = "+" /\ IsCountryCode(Tail(pre)) )
                       => (Accepted(p) /\ loc[p].phone = pre \o d)
                    /\ (Len(d) = 10 /\ d[1] # "9" /\ Given(p, pre, d))
                       => Rejected(p)
        /\ loc[p].raw = <<>> => Rejected(p)
        /\ (Returned(p) /\ res[p].kind = "ok")
           => (res[p].val = loc[p].phone /\ Head(res[p].val) = "+")

\* the local and the international form of one number have both been given
\* and String has returned the same international form for both
C27_Witness ==
    \E p, q \in Procs, d \in PhoneSubscribers :
        /\ PhoneOf(p) /\ PhoneOf(q)
        /\ Given(p, <<"0">>, d) /\ Given(q, <<"+", "9", "8">>, d)
        /\ Returned(p) /\ Returned(q)
        /\ res[p].kind = "ok" /\ res[q].kind = "ok"
        /\ res[p].val = res[q].val
        /\ res[p].val = <<"+", "9", "8">> \o d

\* C28: a refresh whose revoke of the presented row did not change exactly
\* one row creates no refresh-token row and returns no token pair.
C28_RevokeGatesRefresh ==
    \A p \in Procs :
        ( /\ RefreshOf(p)
          /\ \/ pc[p] = "refreshUpdate"
             \/ (Returned(p) /\ res[p].kind = "ok") )
        => "revoked" \in loc[p].note

\* the entries of the cache that are not the counter of a client address
NotIPCounters(r) == {e \in r : ~HasPrefix(e.key, <<"rate_limit:", "ip:">>)}

C30_WindowNotExtended ==
    [][\A e \in redis : \A f \in redis' :
          ( /\ HasPrefix(e.key, <<"rate_limit:">>)
            /\ f.key = e.key
            /\ now < e.exp )
          => f.exp = e.exp]_vars

\* ------------------------------------------ send-OTP with a malformed number
\* a phone number whose subscriber part does not start with 9
BadPhone == <<"0", "8", "1", "2", "3", "4", "5", "6", "7", "8", "9">>

\* The rate-limited send-OTP endpoint asked with a malformed, a missing and a
\* well-formed phone number, one request after another, with working stores.
NextBad ==
    \/ Tick
    \/ \E p \in Procs, phone \in {BadPhone, NoString, Local1} :
          /\ nreq < MaxBadReq
          /\ \A q \in Procs : Idle(q)
          /\ IPBasedRateLimitCheck(p, ClientIP, phone, TokSessionID, NoFault)
    \/ \E p \in Procs : IPBasedRateLimitCount(p, NoFault)
    \/ \E p \in Procs : OtpRateLimitCheck(p, NoFault)
    \/ \E p \in Procs : OtpRateLimitCount(p, NoFault)
    \/ \E p \in Procs : AuthHandlerSendOTP(p, OneOTP, NoFault)

SpecBad == Init /\ [][NextBad]_vars

\* C31: a send-OTP request whose phone number is malformed is answered with
\* ValidationError, and no phone rate-limit counter is kept for a malformed
\* phone number.
C31_ValidationBeforeRateLimit ==
    /\ \A p \in Procs :
          (SendOf(p) /\ Returned(p) /\ ~NewPhoneNumber(loc[p].raw).ok)
          => res[p].kind = "ValidationError"
    /\ \A e \in redis :
          HasPrefix(e.key, <<"rate_limit:", "phone:">>)
          => NewPhoneNumber(SubSeq(e.key, 3, Len(e.key))).ok

\* ------------------------------------------------- refresh-token row claims
\* Login and refresh with two session ids, while the store of the refresh
\* token of a login, and the revoke, the store and the update of a refresh,
\* may fail.  The requests are made within the TTL of the challenge and of
\* the tokens: the clock stands.
NextRows ==
    \/ \E p \in Procs, sid \in NewSessionID :
          nreq < MaxRowReq /\ SendOTPExecute(p, Local1, sid, OneOTP, NoFault)
    \/ \E p \in Procs, code \in OneOTP, sid \in NewSessionID :
          nreq < MaxRowReq /\ LoginStart(p, Local1, code, sid)
    \/ \E p \in Procs : LoginDelete(p, NoFault)
    \/ \E p \in Procs : LoginGetUser(p, NoFault)
    \/ \E p \in Procs : LoginCreateUser(p, NoFault)
    \/ \E p \in Procs : LoginCreateToken(p, Faults)
    \/ \E p \in Procs, tok \in IssuedTokens, sid \in NewSessionID :
          nreq < MaxRowReq /\ RefreshStart(p, tok, sid, NoFault)
    \/ \E p \in Procs : RefreshGetUser(p, NoFault)
    \/ \E p \in Procs : RefreshRevoke(p, Faults)
    \/ \E p \in Procs : RefreshCreate(p, Faults)
    \/ \E p \in Procs : RefreshUpdate(p, Faults)

SpecRows == Init /\ [][NextRows]_vars

\* the row was stored by a login that returned tokens: it has the user id of
\* the phone number and the session id of the challenge the login consumed
FromLogin(t) ==
    \E c \in consumed :
        /\ t.token_hash = HashRefreshToken(c.tok).val
        /\ t.session_id = c.sid
        /\ t.user_id = c.user
        /\ \E u \in users : u.id = c.user /\ u.phone_number = c.phone
        /\ \E s \in sent : s.phone = c.phone /\ s.code = c.code /\ s.sid = c.sid

\* the row was stored by a refresh of token tok under session id sid that
\* handed out new: it has the user id and session id of the row of tok
FromRefresh(t, tok, sid, new) ==
    /\ t.token_hash = HashRefreshToken(new).val
    /\ t.session_id = sid
    /\ \E old \in tokens :
          /\ old.token_hash = HashRefreshToken(tok).val
          /\ old.session_id = t.session_id
          /\ old.user_id = t.user_id

\* C32: every row of refresh_tokens was stored by a login that returned
\* tokens, by a refresh that returned tokens, or by a refresh that has
\* stored it and has its update of the old row left to do, and it has the
\* user id and the session id of that login or of the row that was refreshed.
C32_RowsBoundToOrigin ==
    \A t \in tokens :
        \/ FromLogin(t)
        \/ \E r \in rotated : FromRefresh(t, r.tok, r.sid, r.new)
        \/ \E p \in Procs :
              /\ RefreshOf(p) /\ pc[p] = "refreshUpdate"
              /\ FromRefresh(t, loc[p].tok, loc[p].sid, loc[p].code)

\* a login and a refresh have stored rows, and a login or a refresh has
\* failed at its store
C32_Witness ==
    /\ \E t1, t2 \in tokens :
          /\ FromLogin(t1)
          /\ \E r \in rotated : FromRefresh(t2, r.tok, r.sid, r.new)
    /\ \E p \in Procs :
          /\ Returned(p) /\ res[p].kind = "InternalError"
          /\ res[p].msg \in {"Failed to store refresh token",
                             "Failed to store new refresh token"}

\* C38: the step in which a refresh fails to store the new refresh token
\* returns InternalError and stores no row, and from the return of a refresh
\* that had revoked the row of the presented token before it failed at that
\* store, the row of the presented token is revoked.
C38_FailedStoreKeepsRevoked ==
    [][\A p \in Procs :
          /\ (pc[p] = "refreshCreate" /\ pc'[p] = "done")
             => (res'[p].kind = "InternalError" /\ tokens' = tokens)
          /\ ( /\ loc'[p].op = "refresh" /\ pc'[p] = "done"
               /\ "revoked" \in loc'[p].note
               /\ res'[p].msg = "Failed to store new refresh token" )
             => \A t \in tokens' : t.token_hash = loc'[p].hash => t.revoked_at # {}]_vars

ScanRefreshToken(t) ==
    [ID |-> t.id, UserID |-> t.user_id, SessionID |-> t.session_id,
     TokenHash |-> t.token_hash, ExpiresAt |-> t.expires_at,
     Revoked |-> t.revoked_at # {}, RevokedAt |-> t.revoked_at,
     RevokeReason |-> ""]

RevokeReasonRefresh == "REFRESH"
RevokeReasonLogout == "LOGOUT"

\* C34: a revoked row reads back with the reason of its revocation: REFRESH
\* when a refresh of its token has returned tokens, and REFRESH or LOGOUT in
\* every case.
C34_RevokeReasonRecorded ==
    \A t \in tokens :
        t.revoked_at # {}
        => /\ ScanRefreshToken(t).RevokeReason \in {RevokeReasonRefresh, RevokeReasonLogout}
           /\ (\E r \in rotated : t.token_hash = HashRefreshToken(r.tok).val)
              => ScanRefreshToken(t).RevokeReason = RevokeReasonRefresh

\* ------------------------------------------------- delete after overwrite
\* C35: the deletion of a login removes the challenge the login verified and
\* no other: a challenge of its phone number stored after the login read
\* its own, and live in the cache when the login deletes, is live after the
\* deletion.
C35_DeletesOnlyVerified ==
    [][\A p \in Procs :
          (pc[p] = "loginDelete" /\ pc'[p] = "loginGetUser")
          => \A c \in sent :
                ( /\ c.phone = loc[p].phone
                  /\ c.epoch > loc[p].epoch
                  /\ \E e \in RedisLive(GetRedisKey(PhoneString(c.phone))) :
                        e.val = GetRedisValue(c.sid, HashOTP(c.code).val) )
                => \E e \in redis' :
                      /\ e.key = GetRedisKey(PhoneString(c.phone))
                      /\ e.val = GetRedisValue(c.sid, HashOTP(c.code).val)
                      /\ now < e.exp]_vars

\* ------------------------------------------------------- frame of a logout
MaxFrameReq == 5

\* Logins of one phone number under one session id, and logouts of the
\* tokens they were handed with that session id, with another well-formed
\* one, and with none.
NextFrame ==
    \/ \E p \in Procs :
          nreq < MaxFrameReq /\ SendOTPExecute(p, Local1, TokSessionID, OneOTP, NoFault)
    \/ \E p \in Procs, code \in OneOTP :
          nreq < MaxFrameReq /\ LoginStart(p, Local1, code, TokSessionID)
    \/ \E p \in Procs : LoginDelete(p, NoFault)
    \/ \E p \in Procs : LoginGetUser(p, NoFault)
    \/ \E p \in Procs : LoginCreateUser(p, NoFault)
    \/ \E p \in Procs : LoginCreateToken(p, NoFault)
    \/ \E p \in Procs, tok \in IssuedTokens,
          sid \in {TokSessionID, OtherSessionID, NoString} :
          nreq < MaxFrameReq /\ Logout(p, tok, sid, NoFault)

SpecFrame == Init /\ [][NextFrame]_vars

\* row t is the row of token tok for a logout that carries session id sid
LogoutMatches(t, tok, sid) ==
    /\ t.token_hash \in {Hash(tok).val, HashRefreshToken(tok).val}
    /\ sid # <<>> => t.session_id = sid

\* C37: a logout changes at most one row of refresh_tokens, the row of the
\* token it presents under the session id it carries if it carries one, and
\* changes it by setting revoked_at; every other row is as it was.
C37_LogoutFrame ==
    [][\A p \in Procs :
          ( /\ Idle(p) /\ nreq' # nreq
            /\ \A q \in Procs : q < p => ~Idle(q)
            /\ loc'[p].op = "logout" )
          => LET changed == tokens \ tokens' IN
             /\ Cardinality(changed) <= 1
             /\ \A t \in changed : LogoutMatches(t, loc'[p].tok, loc'[p].sid)
             /\ \A t \in tokens' \ tokens :
                   \E u \in changed : t = [u EXCEPT !.revoked_at = {now}]
             /\ Cardinality(tokens') = Cardinality(tokens)]_vars

\* a logout has returned that presented the token of a row with the session
\* id of another session, while the table holds another row of the same
\* session, and both rows are as they were stored
C37_Witness ==
    \E p \in Procs :
        /\ LogoutOf(p) /\ Returned(p)
        /\ loc[p].sid = OtherSessionID
        /\ \E t \in tokens, u \in tokens :
              /\ t # u
              /\ t.token_hash = HashRefreshToken(loc[p].tok).val
              /\ t.session_id = TokSessionID /\ u.session_id = TokSessionID
              /\ t.user_id = u.user_id
              /\ t.revoked_at = {} /\ u.revoked_at = {}

\* ------------------------------------------------------ frame of a failed login
\* C36: a login that fails at its verification (no live challenge, wrong
\* code, session id mismatch) leaves the cache, users and refresh_tokens as
\* they were; and a login that follows a failed one for the phone number
\* and presents the code and session id of the current challenge, which is
\* in the cache, passes the verification and returns tokens unless another
\* login for the phone number overlaps.
C36_FailedLoginChangesNothing ==
    [][\A p \in Procs :
          /\ ( /\ Idle(p) /\ nreq' # nreq
               /\ \A q \in Procs : q < p => ~Idle(q)
               /\ loc'[p].op = "login" )
             => /\ pc'[p] = "done"
                   => /\ res'[p].kind # "ok"
                      /\ redis' = redis /\ users' = users /\ tokens' = tokens
                /\ {"retry", "current", "live"} \subseteq loc'[p].note
                   => pc'[p] = "loginDelete"
          /\ ( /\ loc'[p].op = "login" /\ pc'[p] = "done"
               /\ {"retry", "current", "live"} \subseteq loc'[p].note
               /\ "overlap" \notin loc'[p].note )
             => res'[p].kind = "ok"]_vars

\* a login has returned tokens that followed a login for the phone number
\* which failed while the challenge was in the cache
C36_Witness ==
    \E p \in Procs :
        /\ LoginOf(p) /\ Returned(p)
        /\ {"retry", "current", "live"} \subseteq loc[p].note
        /\ "overlap" \notin loc[p].note
        /\ res[p].kind = "ok"
        /\ \E c \in consumed : c.phone = loc[p].phone /\ c.code = loc[p].code

\* ------------------------------------------------ rate limit with a failing store
MaxOpenReq == 4

\* POST /api/v1/auth/send-otp for one phone number, one request at a time,
\* while the store calls of both rate limiters may fail.
NextOpen ==
    \/ Tick
    \/ \E p \in Procs :
          /\ nreq < MaxOpenReq
          /\ \A q \in Procs : Idle(q)
          /\ IPBasedRateLimitCheck(p, ClientIP, Local1, TokSessionID, Faults)
    \/ \E p \in Procs : IPBasedRateLimitCount(p, Faults)
    \/ \E p \in Procs : OtpRateLimitCheck(p, Faults)
    \/ \E p \in Procs : OtpRateLimitCount(p, Faults)
    \/ \E p \in Procs : AuthHandlerSendOTP(p, OneOTP, NoFault)

SpecOpen == Init /\ [][NextOpen]_vars

\* C39: a request whose CheckAndIncrement returns a store error, at the GET
\* or at the pipeline, goes to the next handler: from the IP limiter to the
\* phone limiter and from the phone limiter to the send-OTP handler; and no
\* request is answered by a limiter with anything but RateLimitError.
C39_RateLimitFailsOpen ==
    [][\A p \in Procs :
          /\ ( /\ Idle(p) /\ nreq' # nreq
               /\ \A q \in Procs : q < p => ~Idle(q)
               /\ "ipStoreError" \in loc'[p].note )
             => pc'[p] = "otpCheck"
          /\ (pc[p] = "ipCount" /\ pc'[p] # pc[p] /\ "ipStoreError" \in loc'[p].note)
             => pc'[p] = "otpCheck"
          /\ ( /\ pc[p] \in {"otpCheck", "otpCount"} /\ pc'[p] # pc[p]
               /\ "otpStoreError" \in loc'[p].note )
             => pc'[p] = "sendOTP"
          /\ ( /\ pc[p] \in {"ipCount", "otpCheck", "otpCount"}
               /\ pc'[p] = "done" )
             => res'[p].kind = "RateLimitError"]_vars

\* a request has been answered with success whose phone limiter met a store
\* error while the counter of the phone number was at the limit
C39_Witness ==
    \E p \in Procs :
        /\ SendOf(p) /\ Returned(p) /\ res[p].kind = "ok"
        /\ "otpStoreError" \in loc[p].note
        /\ CheckAndIncrementRead(OtpRateLimitKey(loc[p].raw), OTPLimit) = "reject"

====
